---- MODULE Spec2Model ----
(***************************************************************************)
(* ChatTrix room-state coordinator.                                        *)
(*                                                                         *)
(* RedisStore (src/src/lib/redisStore.ts) keeps every entity twice: in the *)
(* primary backend (variable redis) and in the in-process fallbackMaps.    *)
(* The request handlers of the Pages-Router endpoint                       *)
(* (src/unnamed/part_003) are async functions: every `await` of a store    *)
(* call is one step of a request, and steps of different requests          *)
(* interleave.                                                             *)
(***************************************************************************)
EXTENDS Integers, Sequences, FiniteSets, TLC

\* ---------------------------------------------------------------- bounds
Users == {"u1", "u2"}
Rooms == {"A", "B"}
Texts == {"hi"}
\* The avatar of a message: "short" is a string that the request schema and
\* the store's MessageSchema both accept, "long" is a URL of more than 500
\* characters, which the request schema accepts (z.string().url()).
Avatars == {"short", "long"}
\* The avatars of the send-message requests of the coordinator specifications.
SendAvatars == {"short"}
\* The avatars of the join-room requests of the coordinator specifications.
JoinAvatars == {"short"}
\* Number of requests that can be in flight at the same time.
MaxInFlight == 2
\* Longest message list a room reaches in the coordinator specifications.
MaxMsgs == 1
\* addRoomMessage calls on the room of the store-level specification, and how
\* many of them carry a long avatar.
MaxAppends == 150
MaxLongAvatars == 1
\* Typing entries the store holds at once in the store-level specification.
MaxTypingUsers == 2
\* Most typing entries the stores hold in the coordinator specifications.
MaxTyping == 1
\* Backend commands that fail in a run of the store-level specification with
\* failures, and the messages a room holds there.
MaxFaults == 1
MaxStored == 1
\* Messages a room takes, and the last value of the clock, in the
\* specification of send-message under a running clock.
MaxSends == 2
MaxClock == 1
\* The users that the requests of the specification with failing transactions
\* name.
RacingUsers == {"u1"}

Procs == 1..MaxInFlight
NoUser == "none"
NoRoom == "none"

\* ------------------------------------------------------ program constants
MESSAGE_CAP == 100
TYPING_TTL == 5

VARIABLES
    connected,     \* RedisStore.isConnected
    client,        \* RedisStore.client: "redis" (the ioredis client) or "null"
    faulty,        \* the backend commands that the environment may fail:
                   \* "none", "transactions" (MULTI/EXEC and EVAL, as a backend
                   \* does that refuses them), "all", "outage" (every command
                   \* of a call from its first one on)
    running,       \* request whose continuation holds the event loop, or 0
    now,           \* Date.now(), in seconds
    redis,         \* primary backend keys
    fallbackMaps,  \* RedisStore.fallbackMaps
    pc,            \* position of each request in its handler
    req,           \* the validated request payload
    local,         \* handler locals
    resp,          \* the response sent
    hist,          \* history: the isolation and the observations of a request
    regime,        \* how requests arrive: "interleaved", "batch", "serial", ...
    timers,        \* the pending setTimeout callbacks of the store
    twin,          \* a second RedisStore, one that runs without a backend
    ghost          \* history of the store calls

vars == <<connected, client, faulty, running, now, redis, fallbackMaps, pc, req, local, resp, hist,
          regime, timers, twin, ghost>>

\* ------------------------------------------------------------ the stores
NoEntry == [expiresAt |-> 0, timerId |-> FALSE, present |-> FALSE]

EmptyRedis ==
    [roomParticipants |-> [r \in Rooms |-> {}],
     userRooms        |-> [u \in Users |-> NoRoom],
     roomCreators     |-> [r \in Rooms |-> NoUser],
     roomMessages     |-> [r \in Rooms |-> <<>>],
     participantData  |-> [r \in Rooms |-> [u \in Users |-> ""]],
     typing           |-> [r \in Rooms |-> {}],
     typingExpire     |-> [r \in Rooms |-> 0]]

EmptyFallback ==
    [roomParticipants |-> [r \in Rooms |-> {}],
     userRooms        |-> [u \in Users |-> NoRoom],
     roomCreators     |-> [r \in Rooms |-> NoUser],
     roomMessages     |-> [r \in Rooms |-> <<>>],
     typingStatus     |-> [r \in Rooms |-> [u \in Users |-> NoEntry]]]

EmptyStores == [redis |-> EmptyRedis, fallbackMaps |-> EmptyFallback, timers |-> {}]

\* What a store method reads and returns: the backend, the in-memory maps and
\* the pending timers of a RedisStore.
Stores == [redis |-> redis, fallbackMaps |-> fallbackMaps, timers |-> timers]

\* Under regime "twin" the request in slot 2 is served by the second store.
OnTwin(p) == regime = "twin" /\ p = 2
StoresOf(p) == IF OnTwin(p) THEN twin ELSE Stores

\* The test that opens every method: this.isConnected && this.client
OnBackend == connected /\ client # "null"

\* How one store call is served: "primary" (connected, command succeeds),
\* "failed" (connected, the command throws and the catch block uses the
\* fallback), "fallback" (not connected).
CallModes(p) ==
    IF OnTwin(p) \/ ~OnBackend THEN {"fallback"}
    ELSE IF faulty = "all" THEN {"primary", "failed"} ELSE {"primary"}

\* How the MULTI/EXEC of joinRoom and leaveRoom and the EVAL of
\* cleanupEmptyRoom are served.
TransactionModes(p) ==
    IF OnTwin(p) \/ ~OnBackend THEN {"fallback"}
    ELSE IF faulty \in {"transactions", "all"} THEN {"primary", "failed"} ELSE {"primary"}

OnPrimary(mode) == mode = "primary"

\* A participant record: of the fields of Participant, the avatar and
\* isRoomCreator.  The hash of the primary keeps the serialized record, of
\* which the model keeps the avatar (participantData); roomParticipants is the
\* set of the fields of the hash, and the set of the keys of the in-memory map.
Participant(avatar, isRoomCreator) == [avatar |-> avatar, isRoomCreator |-> isRoomCreator]

\* ParticipantSchema.parse of deserializeParticipant succeeds: avatar is
\* z.string().min(1).max(500).
ParticipantSchema(avatar) == avatar # "long"

\* HGETALL on the primary, where a record that deserializeParticipant rejects
\* is left out of the result; the stored map on the fallback.
getRoomParticipants(S, mode, roomId) ==
    IF OnPrimary(mode)
    THEN {u \in S.redis.roomParticipants[roomId] :
            ParticipantSchema(S.redis.participantData[roomId][u])}
    ELSE S.fallbackMaps.roomParticipants[roomId]

setRoomParticipant(S, mode, roomId, userId, participant) ==
    IF OnPrimary(mode)
    THEN [S EXCEPT !.redis.roomParticipants[roomId] = @ \cup {userId},
                   !.redis.participantData[roomId][userId] = participant.avatar]
    ELSE [S EXCEPT !.fallbackMaps.roomParticipants[roomId] = @ \cup {userId}]

removeRoomParticipant(S, mode, roomId, userId) ==
    IF OnPrimary(mode)
    THEN [S EXCEPT !.redis.roomParticipants[roomId] = @ \ {userId},
                   !.redis.participantData[roomId][userId] = ""]
    ELSE [S EXCEPT !.fallbackMaps.roomParticipants[roomId] = @ \ {userId}]

\* HEXISTS on the primary, Map.has on the fallback.
hasRoomParticipant(S, mode, roomId, userId) ==
    IF OnPrimary(mode) THEN userId \in S.redis.roomParticipants[roomId]
    ELSE userId \in S.fallbackMaps.roomParticipants[roomId]

getUserRoom(S, mode, userId) ==
    IF OnPrimary(mode) THEN S.redis.userRooms[userId]
    ELSE S.fallbackMaps.userRooms[userId]

setUserRoom(S, mode, userId, roomId) ==
    IF OnPrimary(mode)
    THEN [S EXCEPT !.redis.userRooms[userId] = roomId]
    ELSE [S EXCEPT !.fallbackMaps.userRooms[userId] = roomId]

removeUserRoom(S, mode, userId) ==
    IF OnPrimary(mode)
    THEN [S EXCEPT !.redis.userRooms[userId] = NoRoom]
    ELSE [S EXCEPT !.fallbackMaps.userRooms[userId] = NoRoom]

getRoomCreator(S, mode, roomId) ==
    IF OnPrimary(mode) THEN S.redis.roomCreators[roomId]
    ELSE S.fallbackMaps.roomCreators[roomId]

\* Faulty variant of setRoomCreator: the record is written to the in-memory
\* map whatever the connection state is.
setRoomCreatorInMemoryOnly(S, mode, roomId, creatorId) ==
    [S EXCEPT !.fallbackMaps.roomCreators[roomId] = creatorId]

setRoomCreator(S, mode, roomId, creatorId) ==
    IF OnPrimary(mode)
    THEN [S EXCEPT !.redis.roomCreators[roomId] = creatorId]
    ELSE [S EXCEPT !.fallbackMaps.roomCreators[roomId] = creatorId]

removeRoomCreator(S, mode, roomId) ==
    IF OnPrimary(mode)
    THEN [S EXCEPT !.redis.roomCreators[roomId] = NoUser]
    ELSE [S EXCEPT !.fallbackMaps.roomCreators[roomId] = NoUser]

clearRoomMessages(S, mode, roomId) ==
    IF OnPrimary(mode)
    THEN [S EXCEPT !.redis.roomMessages[roomId] = <<>>]
    ELSE [S EXCEPT !.fallbackMaps.roomMessages[roomId] = <<>>]

\* ------------------------------------------------------------- messages
Message(id, userId, text, avatar) ==
    [id |-> id, userId |-> userId, text |-> text, avatar |-> avatar]

\* MessageSchema.parse of deserializeMessage succeeds: avatar is
\* z.string().min(1).max(500).
MessageSchema(message) == message.avatar # "long"

\* LRANGE 0 -1 on the primary, where an entry that deserializeMessage rejects
\* is filtered out; the stored array on the fallback.
getRoomMessages(S, mode, roomId) ==
    IF OnPrimary(mode) THEN SelectSeq(S.redis.roomMessages[roomId], MessageSchema)
    ELSE S.fallbackMaps.roomMessages[roomId]

Last(seq, n) == IF Len(seq) > n THEN SubSeq(seq, Len(seq) - n + 1, Len(seq)) ELSE seq
First(seq, n) == IF Len(seq) > n THEN SubSeq(seq, 1, n) ELSE seq

\* LPUSH on the primary (new head); push + slice(-100) on the fallback.
lpush(S, roomId, message) ==
    [S EXCEPT !.redis.roomMessages[roomId] = <<message>> \o @]

ltrim(S, roomId) ==
    [S EXCEPT !.redis.roomMessages[roomId] = First(@, MESSAGE_CAP)]

addRoomMessageFallback(S, roomId, message) ==
    [S EXCEPT !.fallbackMaps.roomMessages[roomId] = Last(Append(@, message), MESSAGE_CAP)]

\* A whole call of addRoomMessage whose commands succeed.
addRoomMessage(S, mode, roomId, message) ==
    IF OnPrimary(mode) THEN ltrim(lpush(S, roomId, message), roomId)
    ELSE addRoomMessageFallback(S, roomId, message)

\* --------------------------------------------------------------- typing
\* Instants are kept relative to the present: now is 0, an entry written now
\* expires at TYPING_TTL, and the passing of a second (TickStores) moves
\* every stored instant one second closer.
\*
\* A pending timer: the callback that setUserTypingStatus scheduled for the
\* entry of (roomId, userId), due seconds from now.  current: the timer is the
\* timerId of the entry of (roomId, userId).
Timer(roomId, userId) ==
    [roomId |-> roomId, userId |-> userId, due |-> now + TYPING_TTL, current |-> TRUE]

\* The timers of (roomId, userId) are no longer the timerId of an entry.
Unreferenced(T, roomId, userId) ==
    {IF t.roomId = roomId /\ t.userId = userId THEN [t EXCEPT !.current = FALSE] ELSE t :
        t \in T}

\* if (existingEntry?.timerId) clearTimeout(existingEntry.timerId)
clearTimeout(S, roomId, userId) ==
    LET entry == S.fallbackMaps.typingStatus[roomId][userId] IN
    IF entry.present /\ entry.timerId
    THEN [S EXCEPT !.timers =
            {t \in @ : ~(t.roomId = roomId /\ t.userId = userId /\ t.current)}]
    ELSE S

\* roomTyping.delete(userId)
deleteTyping(S, roomId, userId) ==
    [S EXCEPT !.fallbackMaps.typingStatus[roomId][userId] = NoEntry,
              !.timers = Unreferenced(@, roomId, userId)]

clearUserTypingStatus(S, userId, roomId) ==
    deleteTyping(clearTimeout(S, roomId, userId), roomId, userId)

RECURSIVE ClearTimers(_, _, _)
ClearTimers(S, roomId, users) ==
    IF users = {} THEN S
    ELSE LET u == CHOOSE x \in users : TRUE IN
         ClearTimers(deleteTyping(clearTimeout(S, roomId, u), roomId, u), roomId, users \ {u})

\* Faulty variant of ClearRoomTyping: the map of the room is deleted without
\* clearing the timers of its entries.
ClearRoomTypingKeepsTimers(S, roomId) ==
    [S EXCEPT !.fallbackMaps.typingStatus[roomId] = [u \in Users |-> NoEntry],
              !.timers = {IF t.roomId = roomId THEN [t EXCEPT !.current = FALSE] ELSE t :
                            t \in @}]

\* The end of cleanupEmptyRoom: every timer of the room's entries is cleared
\* and the map of the room is deleted.
ClearRoomTyping(S, roomId) == ClearTimers(S, roomId, Users)

hdelTyping(S, roomId, userId) ==
    LET left == S.redis.typing[roomId] \ {userId} IN
    [S EXCEPT !.redis.typing[roomId] = left,
              !.redis.typingExpire[roomId] = IF left = {} THEN 0 ELSE @]

\* mode "failed": the first command (HSET or HDEL) throws inside the method's
\* single try block, so the in-memory update below it is skipped as well.
\* mode "failedLate": HSET succeeds and EXPIRE throws, with the same effect on
\* the in-memory update.
setUserTypingStatus(S, mode, roomId, userId, isTyping) ==
    LET S1 == IF ~OnPrimary(mode) THEN S
              ELSE IF isTyping
                   THEN [S EXCEPT !.redis.typing[roomId] = @ \cup {userId},
                                  !.redis.typingExpire[roomId] = now + TYPING_TTL]
                   ELSE hdelTyping(S, roomId, userId)
        S2 == clearTimeout(S1, roomId, userId)
    IN  IF mode = "failed" THEN S
        ELSE IF mode = "failedLate"
             THEN [S EXCEPT !.redis.typing[roomId] = @ \cup {userId}]
        ELSE IF isTyping
             THEN [S2 EXCEPT !.fallbackMaps.typingStatus[roomId][userId] =
                                [expiresAt |-> now + TYPING_TTL, timerId |-> TRUE,
                                 present |-> TRUE],
                             !.timers = Unreferenced(@, roomId, userId)
                                            \cup {Timer(roomId, userId)}]
             ELSE deleteTyping(S2, roomId, userId)

\* The nicknames returned (a user stands for its nickname).
TypingUsersRead(S, mode, roomId, excludeUserId) ==
    IF OnPrimary(mode) THEN S.redis.typing[roomId] \ {excludeUserId}
    ELSE {u \in Users \ {excludeUserId} :
            /\ S.fallbackMaps.typingStatus[roomId][u].present
            /\ S.fallbackMaps.typingStatus[roomId][u].expiresAt > now}

\* The lazy cleanup of the fallback path of getRoomTypingUsers.
getRoomTypingUsers(S, mode, roomId) ==
    IF OnPrimary(mode) THEN S
    ELSE ClearTimers(S, roomId,
            {u \in Users : /\ S.fallbackMaps.typingStatus[roomId][u].present
                           /\ S.fallbackMaps.typingStatus[roomId][u].expiresAt <= now})

\* The setTimeout callback of an entry: if (roomTyping.has(userId))
\* roomTyping.delete(userId).
timerCallback(S, t) ==
    deleteTyping([S EXCEPT !.timers = @ \ {t}], t.roomId, t.userId)

\* One second passes: a typing hash whose EXPIRE has run out is gone.
Earlier(instant) == IF instant > 0 THEN instant - 1 ELSE 0
TickStores(S) ==
    [S EXCEPT
        !.redis.typingExpire = [r \in Rooms |-> Earlier(@[r])],
        !.redis.typing = [r \in Rooms |->
                            IF S.redis.typingExpire[r] = 1 THEN {} ELSE @[r]],
        !.fallbackMaps.typingStatus =
            [r \in Rooms |-> [u \in Users |->
                [@[r][u] EXCEPT !.expiresAt = Earlier(@)]]],
        !.timers = {[t EXCEPT !.due = Earlier(@)] : t \in @}]

\* ------------------------------------------------- multi-key operations
\* MULTI/EXEC on the primary; not connected: the two fallback writes run
\* back to back.  mode "failed" leaves the stores alone: the caller then runs
\* the sequential public methods, each with a mode of its own.
joinRoom(S, mode, userId, roomId, participant) ==
    IF mode = "failed" THEN S
    ELSE setRoomParticipant(setUserRoom(S, mode, userId, roomId), mode, roomId, userId,
                            participant)

\* Faulty variant of leaveRoom: the path without a backend removes the mapping
\* and the typing entry, and leaves the participant record.
leaveRoomFallbackKeepsParticipant(S, mode, userId, roomId) ==
    IF mode = "failed" THEN S
    ELSE IF OnPrimary(mode)
    THEN clearUserTypingStatus(
            hdelTyping(removeRoomParticipant(removeUserRoom(S, mode, userId),
                                             mode, roomId, userId), roomId, userId),
            userId, roomId)
    ELSE clearUserTypingStatus(removeUserRoom(S, mode, userId), userId, roomId)

leaveRoom(S, mode, userId, roomId) ==
    IF mode = "failed" THEN S
    ELSE LET S1 == removeRoomParticipant(removeUserRoom(S, mode, userId), mode, roomId, userId)
             S2 == IF OnPrimary(mode) THEN hdelTyping(S1, roomId, userId) ELSE S1
         IN  clearUserTypingStatus(S2, userId, roomId)

\* Faulty variant of cleanupEmptyRoom: the message list of the room is not
\* deleted.
cleanupEmptyRoomKeepsMessages(S, mode, roomId) ==
    IF mode = "failed" THEN S
    ELSE IF OnPrimary(mode)
    THEN LET S1 == IF S.redis.roomParticipants[roomId] = {}
                   THEN [S EXCEPT !.redis.roomCreators[roomId] = NoUser,
                                  !.redis.typing[roomId] = {},
                                  !.redis.typingExpire[roomId] = 0]
                   ELSE S
         IN  ClearRoomTyping(S1, roomId)
    ELSE IF S.fallbackMaps.roomParticipants[roomId] = {}
         THEN ClearRoomTyping(
                [S EXCEPT !.fallbackMaps.roomCreators[roomId] = NoUser], roomId)
         ELSE S

\* A cleanup that, on a room without participants, removes the creator record
\* in one call and the rest only in a call that finds no creator record.
cleanupEmptyRoomStepwise(S, mode, roomId) ==
    IF mode = "failed" THEN S
    ELSE IF OnPrimary(mode)
    THEN IF S.redis.roomParticipants[roomId] # {} THEN ClearRoomTyping(S, roomId)
         ELSE IF S.redis.roomCreators[roomId] # NoUser
         THEN [S EXCEPT !.redis.roomCreators[roomId] = NoUser]
         ELSE ClearRoomTyping([S EXCEPT !.redis.roomMessages[roomId] = <<>>,
                                        !.redis.typing[roomId] = {},
                                        !.redis.typingExpire[roomId] = 0], roomId)
    ELSE IF S.fallbackMaps.roomParticipants[roomId] # {} THEN S
         ELSE IF S.fallbackMaps.roomCreators[roomId] # NoUser
         THEN [S EXCEPT !.fallbackMaps.roomCreators[roomId] = NoUser]
         ELSE ClearRoomTyping([S EXCEPT !.fallbackMaps.roomMessages[roomId] = <<>>], roomId)

\* The Lua script on the primary, followed by the unconditional removal of the
\* in-memory typing map; the guarded deletions on the fallback.
cleanupEmptyRoom(S, mode, roomId) ==
    IF mode = "failed" THEN S
    ELSE IF OnPrimary(mode)
    THEN LET S1 == IF S.redis.roomParticipants[roomId] = {}
                   THEN [S EXCEPT !.redis.roomCreators[roomId] = NoUser,
                                  !.redis.roomMessages[roomId] = <<>>,
                                  !.redis.typing[roomId] = {},
                                  !.redis.typingExpire[roomId] = 0]
                   ELSE S
         IN  ClearRoomTyping(S1, roomId)
    ELSE IF S.fallbackMaps.roomParticipants[roomId] = {}
         THEN ClearRoomTyping(
                [S EXCEPT !.fallbackMaps.roomCreators[roomId] = NoUser,
                          !.fallbackMaps.roomMessages[roomId] = <<>>], roomId)
         ELSE S

\* The public methods joinRoom, leaveRoom and cleanupEmptyRoom as a whole.
\* modes: how each backend command of the call is served, in the order of
\* the commands: modes[1] is the MULTI/EXEC or the EVAL, and when that fails
\* the following ones are the commands of the public methods that the catch
\* block calls one after the other.
joinRoomMethod(S, modes, userId, roomId, participant) ==
    IF modes[1] # "failed" THEN joinRoom(S, modes[1], userId, roomId, participant)
    ELSE setRoomParticipant(setUserRoom(S, modes[2], userId, roomId),
                            modes[3], roomId, userId, participant)

leaveRoomMethod(S, modes, userId, roomId) ==
    IF modes[1] # "failed" THEN leaveRoom(S, modes[1], userId, roomId)
    ELSE clearUserTypingStatus(
            removeRoomParticipant(removeUserRoom(S, modes[2], userId),
                                  modes[3], roomId, userId),
            userId, roomId)

cleanupEmptyRoomMethod(S, modes, roomId) ==
    IF modes[1] # "failed" THEN cleanupEmptyRoom(S, modes[1], roomId)
    ELSE IF getRoomParticipants(S, modes[2], roomId) = {}
         THEN ClearRoomTyping(
                clearRoomMessages(removeRoomCreator(S, modes[3], roomId), modes[4], roomId),
                roomId)
         ELSE S

\* modes[1] is the LPUSH, modes[2] the LTRIM (and EXPIRE): a failure of the
\* LTRIM runs the catch block after the LPUSH has been applied.
addRoomMessageMethod(S, modes, roomId, message) ==
    IF modes[1] = "primary" /\ modes[2] = "failed"
    THEN addRoomMessageFallback(lpush(S, roomId, message), roomId, message)
    ELSE addRoomMessage(S, modes[1], roomId, message)

\* modes[1] is the HSET or HDEL, modes[2] the EXPIRE that follows the HSET.
setUserTypingStatusMethod(S, modes, roomId, userId, isTyping) ==
    setUserTypingStatus(S, IF modes[1] = "failed" THEN "failed"
                           ELSE IF isTyping /\ modes[2] = "failed" THEN "failedLate"
                           ELSE modes[1],
                        roomId, userId, isTyping)

\* ------------------------------------------------------------- requests
NoReq == [op |-> "none", roomId |-> NoRoom, userId |-> NoUser,
          targetUserId |-> NoUser, flag |-> FALSE, text |-> "", avatar |-> ""]

\* The payload of a request that is observed (quiet or retained) is fixed when
\* it arrives.  Of any other request, a field is drawn where the handler
\* first reads it, and holds the value of Unread until then.
\* flag is the payload's isRoomCreator, read by JoinGetCreator.
JoinRequests ==
    {[op |-> "join-room", roomId |-> r, userId |-> u, targetUserId |-> NoUser,
      flag |-> b, text |-> "", avatar |-> a] :
        r \in Rooms, u \in Users, b \in BOOLEAN, a \in JoinAvatars}
LeaveRequests ==
    {[op |-> "leave-room", roomId |-> r, userId |-> u, targetUserId |-> NoUser,
      flag |-> FALSE, text |-> "", avatar |-> ""] : r \in Rooms, u \in Users}
\* userId is the payload's kickedBy, read by KickGetCreator; targetUserId is
\* read by KickHasTarget.
KickRequests ==
    {[op |-> "kick-user", roomId |-> r, userId |-> k, targetUserId |-> t,
      flag |-> FALSE, text |-> "", avatar |-> ""] :
        r \in Rooms, k \in Users \cup {NoUser}, t \in Users \cup {NoUser}}
SendRequests ==
    {[op |-> "send-message", roomId |-> r, userId |-> u, targetUserId |-> NoUser,
      flag |-> FALSE, text |-> t, avatar |-> a] :
        r \in Rooms, u \in Users, t \in Texts, a \in SendAvatars}
\* flag is the payload's isTyping.
TypingRequests ==
    {[op |-> "typing", roomId |-> r, userId |-> u, targetUserId |-> NoUser,
      flag |-> b, text |-> "", avatar |-> ""] : r \in Rooms, u \in Users, b \in BOOLEAN}
GetMessagesRequests ==
    {[op |-> "get-messages", roomId |-> r, userId |-> NoUser, targetUserId |-> NoUser,
      flag |-> FALSE, text |-> "", avatar |-> ""] : r \in Rooms}
GetTypingStatusRequests ==
    {[op |-> "get-typing-status", roomId |-> r, userId |-> NoUser, targetUserId |-> NoUser,
      flag |-> FALSE, text |-> "", avatar |-> ""] : r \in Rooms}

Unread(rq) ==
    IF rq.op = "join-room" THEN [rq EXCEPT !.flag = FALSE]
    ELSE IF rq.op = "kick-user" THEN [rq EXCEPT !.userId = NoUser, !.targetUserId = NoUser]
    ELSE rq
Drawn(rq) ==
    rq.op = "kick-user" => rq.userId # NoUser /\ rq.targetUserId # NoUser

\* The store calls made so far: the messages passed to addRoomMessage, per
\* room and in call order (appended); the seconds since the last
\* setUserTypingStatus(roomId, userId, true), counted up to TYPING_TTL + 1
\* while the store holds an entry of (roomId, userId), and -1 otherwise
\* (typedAgo); whether the last call was a setUserTypingStatus(.., true) that
\* found a pending timer of its entry (rescheduled).
\* last: the last call of a public method in the store-level specification
\* with failures: the method and its arguments, how its commands were served,
\* whether the call before it was the same call (repeat), whether it changed
\* the stores (changed), and whether the call before it did (changedBefore).
\* faults: the backend commands that have failed.
\* result: what the call returned, for healthCheck.
\* event: the last event of the life of the client: "initialize" (client
\* created), "disabled" (REDIS_ENABLED is false, no client created), an event
\* of the client, or "disconnect" (the call of disconnect()).
NoCall == [op |-> "none", roomId |-> NoRoom, userId |-> NoUser, flag |-> FALSE,
           avatar |-> "", modes |-> <<>>, repeat |-> FALSE, changed |-> FALSE,
           changedBefore |-> FALSE, result |-> ""]
NoGhost == [appended |-> [r \in Rooms |-> <<>>],
            typedAgo |-> [r \in Rooms |-> [u \in Users |-> -1]],
            rescheduled |-> FALSE,
            last |-> NoCall,
            faults |-> 0,
            event |-> "initialize"]

NoLocal == [previousRoom |-> NoRoom, messageId |-> 0]
NoResp == [status |-> 0, error |-> "", isCreator |-> FALSE, participants |-> {},
           messages |-> <<>>, typingUsers |-> {}]
\* What is remembered about a request for the claims: quiet (no other request
\* is in flight while it runs), and what a quiet or retained request observed
\* on its way: the other rooms its user was a participant of when it arrived
\* (wasIn), the creator its handler read (creatorSeen), whether the room had
\* no other participant when joinRoom ran (emptyBefore), and whether the room
\* had a creator, a message and a typing entry when a leave-room arrived
\* (hadContent), and the stores as they were when the request arrived (before).
NoHist == [quiet |-> FALSE, wasIn |-> {}, creatorSeen |-> NoUser,
           emptyBefore |-> FALSE, hadContent |-> FALSE,
           before |-> EmptyStores]

Active(p) == pc[p] \notin {"idle", "done"}
Quiescent == \A p \in Procs : ~Active(p)
\* "batch": one request per slot, and completed requests stay visible until
\* the batch is over.  "serial": a request arrives only when no other is in
\* flight.  "interleaved": requests arrive at any time.  "twin": every request
\* is made twice, in slot 1 on the store connected to the primary and then in
\* slot 2 on the store twin, and the two responses stay visible together.
\* "store": the methods of the store are called directly.  "clocked": as
\* "serial", while the clock of Date.now() runs.  "racing": as "interleaved",
\* with the requests of the users RacingUsers, and no request is singled out
\* as running alone.
retain == regime \in {"batch", "twin"}
Marks == IF retain \/ regime = "racing" THEN {FALSE}
         ELSE IF regime \in {"serial", "clocked"} THEN {TRUE} ELSE BOOLEAN
Observed(p) == retain \/ hist[p].quiet
\* The history of a request at its arrival.
Seen(p, mark) ==
    [NoHist EXCEPT !.quiet = mark, !.before = IF retain \/ mark THEN StoresOf(p) ELSE @]

\* Messages a room can still take within MaxMsgs: stored ones and those of
\* send-message requests in flight.
Pending(roomId) ==
    Cardinality({q \in Procs : Active(q) /\ req[q].op = "send-message"
                               /\ req[q].roomId = roomId})
RoomLoad(roomId) ==
    Len(redis.roomMessages[roomId]) + Len(fallbackMaps.roomMessages[roomId]) + Pending(roomId)

\* Typing entries the stores can still take within MaxTyping: stored ones and
\* those of typing requests in flight.
TypingLoad ==
    Cardinality({<<r, u>> \in Rooms \X Users :
                    u \in redis.typing[r] \/ fallbackMaps.typingStatus[r][u].present})
    + Cardinality({q \in Procs : Active(q) /\ req[q].op = "typing" /\ req[q].flag})

\* ---------------------------------------------------------- initial state
Init ==
    /\ connected = TRUE
    /\ faulty = "none"
    /\ client = "redis"
    /\ running = 0
    /\ now = 0
    /\ redis = EmptyRedis
    /\ fallbackMaps = EmptyFallback
    /\ pc = [p \in Procs |-> "idle"]
    /\ req = [p \in Procs |-> NoReq]
    /\ local = [p \in Procs |-> NoLocal]
    /\ resp = [p \in Procs |-> NoResp]
    /\ hist = [p \in Procs |-> NoHist]
    /\ timers = {}
    /\ twin = EmptyStores
    /\ ghost = NoGhost
    /\ regime = "interleaved"

\* ------------------------------------------------------------ scheduling
\* A continuation that follows a real backend reply runs in a later turn of
\* the event loop: other requests and connection events may run before it.
\* A store call served by the fallback alone resolves at once, and the
\* handler keeps the event loop.
\* A response that was just sent is looked at before anything else happens
\* (Release), unless completed requests are retained.
NoneDone == retain \/ \A q \in Procs : pc[q] # "done"
CanRun(p) == running \in {0, p} /\ NoneDone
Yield(p, mode, nextPc) ==
    running' = IF mode = "fallback" /\ nextPc # "done" THEN p ELSE 0

SetStores(p, S) ==
    IF OnTwin(p)
    THEN twin' = S /\ UNCHANGED <<redis, fallbackMaps, timers>>
    ELSE /\ redis' = S.redis
         /\ fallbackMaps' = S.fallbackMaps
         /\ timers' = S.timers
         /\ UNCHANGED twin

Goto(p, nextPc) == pc' = [pc EXCEPT ![p] = nextPc]

\* createErrorResponse / a success response without payload.
Reply(p, status, error) ==
    /\ resp' = [resp EXCEPT ![p] = [NoResp EXCEPT !.status = status, !.error = error]]
    /\ local' = [local EXCEPT ![p] = NoLocal]

\* A request arrives (the POST branch of handler) and takes the lowest free
\* slot; slots are interchangeable.  The arrival is one step with the first
\* store call of its handler: nothing of a request is visible before that.
Arrive(p, rq, mark) ==
    /\ pc[p] = "idle"
    /\ running = 0
    /\ NoneDone
    /\ IF regime = "twin"
       THEN \/ p = 1 /\ pc[2] = "idle"
            \/ p = 2 /\ pc[1] = "done" /\ rq = req[1]
       ELSE \A q \in Procs : q < p => Active(q)
    /\ regime = "racing" => rq.userId \in RacingUsers \cup {NoUser}
    /\ (rq.op = "send-message" /\ ~OnTwin(p)) =>
          RoomLoad(rq.roomId) < IF regime = "clocked" THEN MaxSends
                                ELSE IF regime = "racing" THEN MESSAGE_CAP + MaxInFlight
                                ELSE MaxMsgs
    /\ (rq.op = "typing" /\ rq.flag /\ ~OnTwin(p)) => TypingLoad < MaxTyping
    /\ \A o \in Procs \ {p} : Active(o) => ~hist[o].quiet /\ ~mark
    /\ IF retain \/ mark THEN Drawn(rq) ELSE rq = Unread(rq)
    /\ req' = [req EXCEPT ![p] = rq]

\* The response has been delivered; the slot is free again.
Release(p) ==
    /\ pc[p] = "done"
    /\ ~retain
    /\ pc' = [pc EXCEPT ![p] = "idle"]
    /\ req' = [req EXCEPT ![p] = NoReq]
    /\ resp' = [resp EXCEPT ![p] = NoResp]
    /\ hist' = [hist EXCEPT ![p] = NoHist]
    /\ UNCHANGED <<connected, faulty, client, running, now, redis, fallbackMaps, timers, twin, local,
                   regime, ghost>>

\* Both responses of a request made on the two stores have been delivered.
ReleaseTwin ==
    /\ regime = "twin"
    /\ pc[1] = "done" /\ pc[2] = "done"
    /\ pc' = [p \in Procs |-> "idle"]
    /\ req' = [p \in Procs |-> NoReq]
    /\ resp' = [p \in Procs |-> NoResp]
    /\ hist' = [p \in Procs |-> NoHist]
    /\ UNCHANGED <<connected, faulty, client, running, now, redis, fallbackMaps, timers, twin, local,
                   regime, ghost>>

\* ------------------------------------------------------- handleJoinRoom
\* const previousRoom = await redisStore.getUserRoom(userId)
JoinGetUserRoom(p, rq) ==
    /\ pc[p] = "idle"
    /\ \E mark \in Marks, mode \in CallModes(p) :
        LET previousRoom == getUserRoom(StoresOf(p), mode, rq.userId)
            leaves == previousRoom # NoRoom /\ previousRoom # rq.roomId
            nextPc == IF leaves THEN "j_removeParticipant" ELSE "j_joinRoom"
        IN  /\ Arrive(p, rq, mark)
            /\ local' = [local EXCEPT ![p].previousRoom =
                            IF leaves THEN previousRoom ELSE NoRoom]
            /\ hist' = [hist EXCEPT ![p] = [Seen(p, mark) EXCEPT
                  !.wasIn = IF retain \/ mark
                            THEN {r \in Rooms \ {rq.roomId} :
                                    hasRoomParticipant(StoresOf(p), mode, r, rq.userId)}
                            ELSE {}]]
            /\ Goto(p, nextPc)
            /\ Yield(p, mode, nextPc)
            /\ UNCHANGED <<regime, ghost, connected, faulty, client, now, redis, fallbackMaps, timers, twin, resp>>

\* await redisStore.removeRoomParticipant(previousRoom, userId)
JoinRemoveParticipant(p) ==
    /\ pc[p] = "j_removeParticipant" /\ CanRun(p)
    /\ \E mode \in CallModes(p) :
        /\ SetStores(p, removeRoomParticipant(StoresOf(p), mode, local[p].previousRoom, req[p].userId))
        /\ Yield(p, mode, "j_removeUserRoom")
    /\ Goto(p, "j_removeUserRoom")
    /\ local' = [local EXCEPT ![p] = NoLocal]
    /\ UNCHANGED <<regime, ghost, connected, faulty, client, now, req, resp, hist>>

\* await redisStore.removeUserRoom(userId)
JoinRemoveUserRoom(p) ==
    /\ pc[p] = "j_removeUserRoom" /\ CanRun(p)
    /\ \E mode \in CallModes(p) :
        /\ SetStores(p, removeUserRoom(StoresOf(p), mode, req[p].userId))
        /\ Yield(p, mode, "j_joinRoom")
    /\ Goto(p, "j_joinRoom")
    /\ UNCHANGED <<regime, ghost, connected, faulty, client, now, req, local, resp, hist>>

\* await redisStore.joinRoom(userId, roomId, participant)
JoinJoinRoom(p) ==
    /\ pc[p] = "j_joinRoom" /\ CanRun(p)
    /\ \E mode \in TransactionModes(p) :
        LET nextPc == IF mode = "failed" THEN "j_seqSetUserRoom" ELSE "j_getCreator" IN
        /\ SetStores(p, joinRoom(StoresOf(p), mode, req[p].userId, req[p].roomId,
                                  Participant(req[p].avatar, req[p].flag)))
        /\ hist' = [hist EXCEPT ![p].emptyBefore =
                      /\ Observed(p)
                      /\ getRoomParticipants(StoresOf(p), mode, req[p].roomId)
                            \ {req[p].userId} = {}]
        /\ Goto(p, nextPc)
        /\ Yield(p, mode, nextPc)
    /\ UNCHANGED <<regime, ghost, connected, faulty, client, now, req, local, resp>>

\* Faulty variant of JoinGetCreator: a creator claim overrides the record
\* (isRoomCreator alone, without the comparison with existingCreator).
JoinGetCreatorClaimWins(p) ==
    /\ pc[p] = "j_getCreator" /\ CanRun(p)
    /\ \E mode \in CallModes(p),
          isRoomCreator \in IF Observed(p) THEN {req[p].flag} ELSE BOOLEAN :
        LET existingCreator == getRoomCreator(StoresOf(p), mode, req[p].roomId)
            nextPc == IF existingCreator = NoUser \/ isRoomCreator
                      THEN "j_setCreator" ELSE "j_getParticipants"
        IN  /\ req' = [req EXCEPT ![p].flag = isRoomCreator]
            /\ hist' = [hist EXCEPT ![p].creatorSeen =
                            IF Observed(p) THEN existingCreator ELSE NoUser]
            /\ Goto(p, nextPc)
            /\ Yield(p, mode, nextPc)
    /\ UNCHANGED <<regime, ghost, connected, faulty, client, now, redis, fallbackMaps, timers, twin, local, resp>>

\* const existingCreator = await redisStore.getRoomCreator(roomId), and the
\* test of isRoomCreator that follows it.
JoinGetCreator(p) ==
    /\ pc[p] = "j_getCreator" /\ CanRun(p)
    /\ \E mode \in CallModes(p),
          isRoomCreator \in IF Observed(p) THEN {req[p].flag} ELSE BOOLEAN :
        LET existingCreator == getRoomCreator(StoresOf(p), mode, req[p].roomId)
            nextPc == IF existingCreator = NoUser
                         \/ (isRoomCreator /\ existingCreator = req[p].userId)
                      THEN "j_setCreator" ELSE "j_getParticipants"
        IN  /\ req' = [req EXCEPT ![p].flag = isRoomCreator]
            /\ hist' = [hist EXCEPT ![p].creatorSeen =
                            IF Observed(p) THEN existingCreator ELSE NoUser]
            /\ Goto(p, nextPc)
            /\ Yield(p, mode, nextPc)
    /\ UNCHANGED <<regime, ghost, connected, faulty, client, now, redis, fallbackMaps, timers, twin, local, resp>>

\* await redisStore.setRoomCreator(roomId, userId)
JoinSetCreator(p) ==
    /\ pc[p] = "j_setCreator" /\ CanRun(p)
    /\ \E mode \in CallModes(p) :
        /\ SetStores(p, setRoomCreator(StoresOf(p), mode, req[p].roomId, req[p].userId))
        /\ Yield(p, mode, "j_getParticipants")
    /\ Goto(p, "j_getParticipants")
    /\ UNCHANGED <<regime, ghost, connected, faulty, client, now, req, local, resp, hist>>

\* const participantsMap = await redisStore.getRoomParticipants(roomId); the
\* list is kept for the response of a marked or retained request.
JoinGetParticipants(p) ==
    /\ pc[p] = "j_getParticipants" /\ CanRun(p)
    /\ \E mode \in CallModes(p) :
        /\ resp' = [resp EXCEPT ![p].participants =
                      IF Observed(p) THEN getRoomParticipants(StoresOf(p), mode, req[p].roomId)
                      ELSE {}]
        /\ Yield(p, mode, "j_isCreator")
    /\ Goto(p, "j_isCreator")
    /\ UNCHANGED <<regime, ghost, connected, faulty, client, now, redis, fallbackMaps, timers, twin, req, local, hist>>

\* Faulty variant of JoinIsCreator: the response echoes the payload's
\* isRoomCreator.
JoinIsCreatorEchoesClaim(p) ==
    /\ pc[p] = "j_isCreator" /\ CanRun(p)
    /\ resp' = [resp EXCEPT ![p].status = 200, ![p].isCreator = req[p].flag]
    /\ Goto(p, "done")
    /\ running' = 0
    /\ UNCHANGED <<regime, ghost, connected, faulty, client, now, redis, fallbackMaps, timers, twin, req, local, hist>>

\* const isCreator = await redisStore.getRoomCreator(roomId) === userId
JoinIsCreator(p) ==
    /\ pc[p] = "j_isCreator" /\ CanRun(p)
    /\ \E mode \in CallModes(p) :
        resp' = [resp EXCEPT ![p].status = 200,
                             ![p].isCreator =
                                getRoomCreator(StoresOf(p), mode, req[p].roomId) = req[p].userId]
    /\ Goto(p, "done")
    /\ running' = 0
    /\ UNCHANGED <<regime, ghost, connected, faulty, client, now, redis, fallbackMaps, timers, twin, req, local, hist>>

handleJoinRoom(p) ==
    \/ \E rq \in JoinRequests : JoinGetUserRoom(p, rq)
    \/ JoinRemoveParticipant(p)
    \/ JoinRemoveUserRoom(p)
    \/ JoinJoinRoom(p)
    \/ JoinGetCreator(p)
    \/ JoinSetCreator(p)
    \/ JoinGetParticipants(p)
    \/ JoinIsCreator(p)

\* ------------------------------------------------------ handleLeaveRoom
\* const isParticipant = await redisStore.hasRoomParticipant(roomId, userId)
LeaveHasParticipant(p, rq) ==
    /\ pc[p] = "idle"
    /\ \E mark \in Marks, mode \in CallModes(p) :
        /\ Arrive(p, rq, mark)
        /\ hist' = [hist EXCEPT ![p] = [Seen(p, mark) EXCEPT
              !.hadContent = /\ retain \/ mark
                             /\ getRoomCreator(StoresOf(p), mode, rq.roomId) # NoUser
                             /\ getRoomMessages(StoresOf(p), mode, rq.roomId) # <<>>
                             /\ redis.typing[rq.roomId] \cup
                                  {u \in Users :
                                     fallbackMaps.typingStatus[rq.roomId][u].present} # {}]]
        /\ IF hasRoomParticipant(StoresOf(p), mode, rq.roomId, rq.userId)
           THEN /\ Goto(p, "l_leaveRoom")
                /\ Yield(p, mode, "l_leaveRoom")
                /\ UNCHANGED <<resp, local>>
           ELSE /\ Goto(p, "done")
                /\ running' = 0
                /\ Reply(p, 404, "User not found in room")
        /\ UNCHANGED <<regime, ghost, connected, faulty, client, now, redis, fallbackMaps, timers, twin>>

\* await redisStore.leaveRoom(userId, roomId)
LeaveLeaveRoom(p) ==
    /\ pc[p] = "l_leaveRoom" /\ CanRun(p)
    /\ \E mode \in TransactionModes(p) :
        LET nextPc == IF mode = "failed" THEN "l_seqRemoveUserRoom" ELSE "l_cleanup" IN
        /\ SetStores(p, leaveRoom(StoresOf(p), mode, req[p].userId, req[p].roomId))
        /\ Goto(p, nextPc)
        /\ Yield(p, mode, nextPc)
    /\ UNCHANGED <<regime, ghost, connected, faulty, client, now, req, local, resp, hist>>

\* await redisStore.cleanupEmptyRoom(roomId)
LeaveCleanup(p) ==
    /\ pc[p] = "l_cleanup" /\ CanRun(p)
    /\ \E mode \in TransactionModes(p) :
        /\ SetStores(p, cleanupEmptyRoom(StoresOf(p), mode, req[p].roomId))
        /\ IF mode = "failed"
           THEN /\ Goto(p, "c_getParticipants")
                /\ running' = 0
                /\ UNCHANGED <<resp, local>>
           ELSE /\ Goto(p, "done")
                /\ running' = 0
                /\ Reply(p, 200, "")
    /\ UNCHANGED <<regime, ghost, connected, faulty, client, now, req, hist>>

handleLeaveRoom(p) ==
    \/ \E rq \in LeaveRequests : LeaveHasParticipant(p, rq)
    \/ LeaveLeaveRoom(p)
    \/ LeaveCleanup(p)

\* ------------------------------------------------------- handleKickUser
\* const participants = await redisStore.getRoomParticipants(roomId)
KickGetParticipants(p, rq) ==
    /\ pc[p] = "idle"
    /\ \E mark \in Marks, mode \in CallModes(p) :
        /\ Arrive(p, rq, mark)
        /\ hist' = [hist EXCEPT ![p] = Seen(p, mark)]
        /\ IF getRoomParticipants(StoresOf(p), mode, rq.roomId) = {}
           THEN /\ Goto(p, "done")
                /\ running' = 0
                /\ Reply(p, 404, "Room not found")
           ELSE /\ Goto(p, "k_hasTarget")
                /\ Yield(p, mode, "k_hasTarget")
                /\ UNCHANGED <<resp, local>>
        /\ UNCHANGED <<regime, ghost, connected, faulty, client, now, redis, fallbackMaps, timers, twin>>

\* const targetIsParticipant = await redisStore.hasRoomParticipant(roomId, targetUserId)
KickHasTarget(p) ==
    /\ pc[p] = "k_hasTarget" /\ CanRun(p)
    /\ \E mode \in CallModes(p),
          targetUserId \in IF Observed(p) THEN {req[p].targetUserId} ELSE Users :
        /\ req' = [req EXCEPT ![p].targetUserId = targetUserId]
        /\ IF ~hasRoomParticipant(StoresOf(p), mode, req[p].roomId, targetUserId)
           THEN /\ Goto(p, "done")
                /\ running' = 0
                /\ Reply(p, 404, "Target user not found")
           ELSE /\ Goto(p, "k_getCreator")
                /\ Yield(p, mode, "k_getCreator")
                /\ UNCHANGED <<resp, local>>
    /\ UNCHANGED <<regime, ghost, connected, faulty, client, now, redis, fallbackMaps, timers, twin, hist>>

\* Faulty variant of KickGetCreator: any participant of the room is allowed to
\* kick (the comparison with roomCreator is replaced by a membership test).
KickGetCreatorAnyMember(p) ==
    /\ pc[p] = "k_getCreator" /\ CanRun(p)
    /\ \E mode \in CallModes(p),
          kickedBy \in IF Observed(p) THEN {req[p].userId} ELSE Users :
        /\ req' = [req EXCEPT ![p].userId = kickedBy]
        /\ IF ~hasRoomParticipant(StoresOf(p), mode, req[p].roomId, kickedBy)
           THEN /\ Goto(p, "done")
                /\ running' = 0
                /\ Reply(p, 403, "Forbidden")
           ELSE IF req[p].targetUserId = kickedBy
           THEN /\ Goto(p, "done")
                /\ running' = 0
                /\ Reply(p, 400, "Cannot kick yourself")
           ELSE /\ Goto(p, "k_removeUserRoom")
                /\ Yield(p, mode, "k_removeUserRoom")
                /\ UNCHANGED <<resp, local>>
    /\ UNCHANGED <<regime, ghost, connected, faulty, client, now, redis, fallbackMaps, timers, twin, hist>>

\* Faulty variant of KickGetCreator: the self-kick check is missing.
KickGetCreatorAllowsSelfKick(p) ==
    /\ pc[p] = "k_getCreator" /\ CanRun(p)
    /\ \E mode \in CallModes(p),
          kickedBy \in IF Observed(p) THEN {req[p].userId} ELSE Users :
        LET roomCreator == getRoomCreator(StoresOf(p), mode, req[p].roomId) IN
        /\ req' = [req EXCEPT ![p].userId = kickedBy]
        /\ IF roomCreator = NoUser \/ roomCreator # kickedBy
           THEN /\ Goto(p, "done")
                /\ running' = 0
                /\ Reply(p, 403, "Forbidden")
           ELSE /\ Goto(p, "k_removeUserRoom")
                /\ Yield(p, mode, "k_removeUserRoom")
                /\ UNCHANGED <<resp, local>>
    /\ UNCHANGED <<regime, ghost, connected, faulty, client, now, redis, fallbackMaps, timers, twin, hist>>

\* const roomCreator = await redisStore.getRoomCreator(roomId), and the two
\* checks that follow it without an await.
KickGetCreator(p) ==
    /\ pc[p] = "k_getCreator" /\ CanRun(p)
    /\ \E mode \in CallModes(p),
          kickedBy \in IF Observed(p) THEN {req[p].userId} ELSE Users :
        LET roomCreator == getRoomCreator(StoresOf(p), mode, req[p].roomId) IN
        /\ req' = [req EXCEPT ![p].userId = kickedBy]
        /\ IF roomCreator = NoUser \/ roomCreator # kickedBy
           THEN /\ Goto(p, "done")
                /\ running' = 0
                /\ Reply(p, 403, "Forbidden")
           ELSE IF req[p].targetUserId = kickedBy
           THEN /\ Goto(p, "done")
                /\ running' = 0
                /\ Reply(p, 400, "Cannot kick yourself")
           ELSE /\ Goto(p, "k_removeUserRoom")
                /\ Yield(p, mode, "k_removeUserRoom")
                /\ UNCHANGED <<resp, local>>
    /\ UNCHANGED <<regime, ghost, connected, faulty, client, now, redis, fallbackMaps, timers, twin, hist>>

\* await redisStore.removeUserRoom(targetUserId)
KickRemoveUserRoom(p) ==
    /\ pc[p] = "k_removeUserRoom" /\ CanRun(p)
    /\ \E mode \in CallModes(p) :
        /\ SetStores(p, removeUserRoom(StoresOf(p), mode, req[p].targetUserId))
        /\ Yield(p, mode, "k_removeParticipant")
    /\ Goto(p, "k_removeParticipant")
    /\ UNCHANGED <<regime, ghost, connected, faulty, client, now, req, local, resp, hist>>

\* Faulty variant of KickRemoveParticipant: the room is cleaned up after the
\* removal, as handleLeaveRoom does.
KickRemoveParticipantCleansUp(p) ==
    /\ pc[p] = "k_removeParticipant" /\ CanRun(p)
    /\ \E mode \in CallModes(p) :
        SetStores(p, cleanupEmptyRoom(
            removeRoomParticipant(StoresOf(p), mode, req[p].roomId, req[p].targetUserId),
            mode, req[p].roomId))
    /\ Goto(p, "done")
    /\ running' = 0
    /\ Reply(p, 200, "")
    /\ UNCHANGED <<regime, ghost, connected, faulty, client, now, req, hist>>

\* await redisStore.removeRoomParticipant(roomId, targetUserId)
KickRemoveParticipant(p) ==
    /\ pc[p] = "k_removeParticipant" /\ CanRun(p)
    /\ \E mode \in CallModes(p) :
        SetStores(p, removeRoomParticipant(StoresOf(p), mode, req[p].roomId, req[p].targetUserId))
    /\ Goto(p, "done")
    /\ running' = 0
    /\ Reply(p, 200, "")
    /\ UNCHANGED <<regime, ghost, connected, faulty, client, now, req, hist>>

handleKickUser(p) ==
    \/ \E rq \in KickRequests : KickGetParticipants(p, rq)
    \/ KickHasTarget(p)
    \/ KickGetCreator(p)
    \/ KickRemoveUserRoom(p)
    \/ KickRemoveParticipant(p)

\* ---------------------------------------------------- handleSendMessage
\* Faulty variant of SendHasParticipant: the sender passes when the room has
\* any participant.
SendHasParticipantAnyMember(p, rq) ==
    /\ pc[p] = "idle"
    /\ \E mark \in Marks, mode \in CallModes(p) :
        /\ Arrive(p, rq, mark)
        /\ hist' = [hist EXCEPT ![p] = Seen(p, mark)]
        /\ IF getRoomParticipants(StoresOf(p), mode, rq.roomId) # {}
           THEN /\ Goto(p, "s_addRoomMessage")
                /\ Yield(p, mode, "s_addRoomMessage")
                /\ local' = [local EXCEPT ![p].messageId = now]
                /\ UNCHANGED resp
           ELSE /\ Goto(p, "done")
                /\ running' = 0
                /\ Reply(p, 403, "User not in room")
        /\ UNCHANGED <<regime, ghost, connected, faulty, client, now, redis, fallbackMaps, timers, twin>>

\* const isParticipant = await redisStore.hasRoomParticipant(roomId, userId);
\* messageData is built in the same continuation (id: Date.now()).
SendHasParticipant(p, rq) ==
    /\ pc[p] = "idle"
    /\ \E mark \in Marks, mode \in CallModes(p) :
        /\ Arrive(p, rq, mark)
        /\ hist' = [hist EXCEPT ![p] = Seen(p, mark)]
        /\ IF hasRoomParticipant(StoresOf(p), mode, rq.roomId, rq.userId)
           THEN /\ Goto(p, "s_addRoomMessage")
                /\ Yield(p, mode, "s_addRoomMessage")
                /\ local' = [local EXCEPT ![p].messageId = now]
                /\ UNCHANGED resp
           ELSE /\ Goto(p, "done")
                /\ running' = 0
                /\ Reply(p, 403, "User not in room")
        /\ UNCHANGED <<regime, ghost, connected, faulty, client, now, redis, fallbackMaps, timers, twin>>

messageData(p) == Message(local[p].messageId, req[p].userId, req[p].text, req[p].avatar)

\* await redisStore.addRoomMessage(roomId, messageData): LPUSH on the
\* primary, the in-memory push otherwise.
SendAddRoomMessage(p) ==
    /\ pc[p] = "s_addRoomMessage" /\ CanRun(p)
    /\ \E mode \in CallModes(p) :
        IF OnPrimary(mode)
        THEN /\ SetStores(p, lpush(StoresOf(p), req[p].roomId, messageData(p)))
             /\ Goto(p, "s_ltrim")
             /\ running' = 0
             /\ UNCHANGED <<resp, local>>
        ELSE /\ SetStores(p, addRoomMessageFallback(StoresOf(p), req[p].roomId, messageData(p)))
             /\ Goto(p, "done")
             /\ running' = 0
             /\ resp' = [resp EXCEPT ![p] = [NoResp EXCEPT !.status = 200,
                                                !.messages = <<messageData(p)>>]]
             /\ local' = [local EXCEPT ![p] = NoLocal]
    /\ UNCHANGED <<regime, ghost, connected, faulty, client, now, req, hist>>

\* LTRIM 0 99 (and EXPIRE) of addRoomMessage; a failure here runs the catch
\* block, which pushes the message to the in-memory list as well.
SendLtrim(p) ==
    /\ pc[p] = "s_ltrim" /\ CanRun(p)
    /\ \E mode \in CallModes(p) :
        SetStores(p, IF OnPrimary(mode) THEN ltrim(StoresOf(p), req[p].roomId)
                  ELSE addRoomMessageFallback(StoresOf(p), req[p].roomId, messageData(p)))
    /\ Goto(p, "done")
    /\ running' = 0
    /\ resp' = [resp EXCEPT ![p] = [NoResp EXCEPT !.status = 200,
                                       !.messages = <<messageData(p)>>]]
    /\ local' = [local EXCEPT ![p] = NoLocal]
    /\ UNCHANGED <<regime, ghost, connected, faulty, client, now, req, hist>>

handleSendMessage(p) ==
    \/ \E rq \in SendRequests : SendHasParticipant(p, rq)
    \/ SendAddRoomMessage(p)
    \/ SendLtrim(p)

\* ---------------------------------------------------- handleGetMessages
\* const messages = await redisStore.getRoomMessages(roomId)
GetMessages(p, rq) ==
    /\ pc[p] = "idle"
    /\ \E mark \in Marks, mode \in CallModes(p) :
        /\ Arrive(p, rq, mark)
        /\ hist' = [hist EXCEPT ![p] = Seen(p, mark)]
        /\ resp' = [resp EXCEPT ![p] = [NoResp EXCEPT !.status = 200,
                      !.messages = getRoomMessages(StoresOf(p), mode, rq.roomId)]]
        /\ Goto(p, "done")
        /\ UNCHANGED <<regime, ghost, connected, faulty, client, running, now, redis, fallbackMaps, timers, twin, local>>

handleGetMessages(p) == \E rq \in GetMessagesRequests : GetMessages(p, rq)

\* --------------------------------------------------------- handleTyping
\* Faulty variant of TypingHasParticipant: the typing status is written before
\* the membership of the sender is looked at.
TypingHasParticipantWritesFirst(p, rq) ==
    /\ pc[p] = "idle"
    /\ \E mark \in Marks, mode \in CallModes(p) :
        /\ Arrive(p, rq, mark)
        /\ hist' = [hist EXCEPT ![p] = Seen(p, mark)]
        /\ IF hasRoomParticipant(StoresOf(p), mode, rq.roomId, rq.userId)
           THEN /\ Goto(p, "t_setTyping")
                /\ Yield(p, mode, "t_setTyping")
                /\ UNCHANGED <<resp, local, redis, fallbackMaps, timers, twin>>
           ELSE /\ SetStores(p, setUserTypingStatus(StoresOf(p), mode, rq.roomId,
                                                     rq.userId, rq.flag))
                /\ Goto(p, "done")
                /\ running' = 0
                /\ Reply(p, 403, "Forbidden")
        /\ UNCHANGED <<regime, ghost, connected, faulty, client, now>>

\* const isParticipant = await redisStore.hasRoomParticipant(roomId, userId)
TypingHasParticipant(p, rq) ==
    /\ pc[p] = "idle"
    /\ \E mark \in Marks, mode \in CallModes(p) :
        /\ Arrive(p, rq, mark)
        /\ hist' = [hist EXCEPT ![p] = Seen(p, mark)]
        /\ IF hasRoomParticipant(StoresOf(p), mode, rq.roomId, rq.userId)
           THEN /\ Goto(p, "t_setTyping")
                /\ Yield(p, mode, "t_setTyping")
                /\ UNCHANGED <<resp, local>>
           ELSE /\ Goto(p, "done")
                /\ running' = 0
                /\ Reply(p, 403, "Forbidden")
        /\ UNCHANGED <<regime, ghost, connected, faulty, client, now, redis, fallbackMaps, timers, twin>>

\* await redisStore.setUserTypingStatus(roomId, userId, nickname, isTyping)
TypingSetStatus(p) ==
    /\ pc[p] = "t_setTyping" /\ CanRun(p)
    /\ \E mode \in CallModes(p) :
        /\ SetStores(p, setUserTypingStatus(StoresOf(p), mode, req[p].roomId, req[p].userId, req[p].flag))
        /\ Yield(p, mode, "t_getTyping")
    /\ Goto(p, "t_getTyping")
    /\ UNCHANGED <<regime, ghost, connected, faulty, client, now, req, local, resp, hist>>

\* const typingUsers = await redisStore.getRoomTypingUsers(roomId, userId)
TypingGetUsers(p) ==
    /\ pc[p] = "t_getTyping" /\ CanRun(p)
    /\ \E mode \in CallModes(p) :
        /\ SetStores(p, getRoomTypingUsers(StoresOf(p), mode, req[p].roomId))
        /\ resp' = [resp EXCEPT ![p] = [NoResp EXCEPT !.status = 200,
                      !.typingUsers = TypingUsersRead(StoresOf(p), mode, req[p].roomId, req[p].userId)]]
    /\ Goto(p, "done")
    /\ running' = 0
    /\ UNCHANGED <<regime, ghost, connected, faulty, client, now, req, local, hist>>

handleTyping(p) ==
    \/ \E rq \in TypingRequests : TypingHasParticipant(p, rq)
    \/ TypingSetStatus(p)
    \/ TypingGetUsers(p)

\* ------------------------------------------------ handleGetTypingStatus
\* const participants = await redisStore.getRoomParticipants(roomId)
GetTypingParticipants(p, rq) ==
    /\ pc[p] = "idle"
    /\ \E mark \in Marks, mode \in CallModes(p) :
        /\ Arrive(p, rq, mark)
        /\ hist' = [hist EXCEPT ![p] = Seen(p, mark)]
        /\ IF getRoomParticipants(StoresOf(p), mode, rq.roomId) = {}
           THEN /\ Goto(p, "done")
                /\ running' = 0
                /\ Reply(p, 404, "Room not found")
           ELSE /\ Goto(p, "g_getTyping")
                /\ Yield(p, mode, "g_getTyping")
                /\ UNCHANGED <<resp, local>>
        /\ UNCHANGED <<regime, ghost, connected, faulty, client, now, redis, fallbackMaps, timers, twin>>

\* const typingStatus = await redisStore.getRoomTypingUsers(roomId)
GetTypingUsers(p) ==
    /\ pc[p] = "g_getTyping" /\ CanRun(p)
    /\ \E mode \in CallModes(p) :
        /\ SetStores(p, getRoomTypingUsers(StoresOf(p), mode, req[p].roomId))
        /\ resp' = [resp EXCEPT ![p] = [NoResp EXCEPT !.status = 200,
                      !.typingUsers = TypingUsersRead(StoresOf(p), mode, req[p].roomId, NoUser)]]
    /\ Goto(p, "done")
    /\ running' = 0
    /\ UNCHANGED <<regime, ghost, connected, faulty, client, now, req, local, hist>>

handleGetTypingStatus(p) ==
    \/ \E rq \in GetTypingStatusRequests : GetTypingParticipants(p, rq)
    \/ GetTypingUsers(p)

\* ------------------------------------------------------ specifications
\* Spec: the membership operations of the coordinator on a connected primary
\* backend whose commands succeed, with MaxInFlight requests interleaving.
Next ==
    \E p \in Procs :
        \/ handleJoinRoom(p)
        \/ handleLeaveRoom(p)
        \/ handleKickUser(p)
        \/ Release(p)

Spec == Init /\ [][Next]_vars

\* SpecJoins: MaxInFlight concurrent join-room requests on the fresh store,
\* every one of them retained with what it observed.
InitJoins ==
    /\ connected = TRUE
    /\ faulty = "none"
    /\ client = "redis"
    /\ running = 0
    /\ now = 0
    /\ redis = EmptyRedis
    /\ fallbackMaps = EmptyFallback
    /\ pc = [p \in Procs |-> "idle"]
    /\ req = [p \in Procs |-> NoReq]
    /\ local = [p \in Procs |-> NoLocal]
    /\ resp = [p \in Procs |-> NoResp]
    /\ hist = [p \in Procs |-> NoHist]
    /\ timers = {}
    /\ twin = EmptyStores
    /\ ghost = NoGhost
    /\ regime = "batch"

NextJoins == \E p \in Procs : handleJoinRoom(p)

SpecJoins == InitJoins /\ [][NextJoins]_vars

\* SpecSerial: the operations that fill and empty a room (join-room,
\* send-message, typing, leave-room), one request at a time, on a store that
\* is either connected to the primary backend or runs on the fallback alone
\* (no REDIS_URL configured).
InitSerial ==
    /\ connected \in BOOLEAN
    /\ faulty = "none"
    /\ client = "redis"
    /\ running = 0
    /\ now = 0
    /\ redis = EmptyRedis
    /\ fallbackMaps = EmptyFallback
    /\ pc = [p \in Procs |-> "idle"]
    /\ req = [p \in Procs |-> NoReq]
    /\ local = [p \in Procs |-> NoLocal]
    /\ resp = [p \in Procs |-> NoResp]
    /\ hist = [p \in Procs |-> NoHist]
    /\ timers = {}
    /\ twin = EmptyStores
    /\ ghost = NoGhost
    /\ regime = "serial"

NextSerial ==
    \E p \in Procs :
        \/ handleJoinRoom(p)
        \/ handleLeaveRoom(p)
        \/ handleKickUser(p)
        \/ handleSendMessage(p)
        \/ handleGetMessages(p)
        \/ handleTyping(p)
        \/ handleGetTypingStatus(p)
        \/ Release(p)

SpecSerial == InitSerial /\ [][NextSerial]_vars

\* SpecTwin: join-room, send-message, typing and leave-room, one request at
\* a time, each made on the store connected to the primary backend and then
\* on the store that runs on the fallback alone.
InitTwin ==
    /\ connected = TRUE
    /\ faulty = "none"
    /\ client = "redis"
    /\ running = 0
    /\ now = 0
    /\ redis = EmptyRedis
    /\ fallbackMaps = EmptyFallback
    /\ pc = [p \in Procs |-> "idle"]
    /\ req = [p \in Procs |-> NoReq]
    /\ local = [p \in Procs |-> NoLocal]
    /\ resp = [p \in Procs |-> NoResp]
    /\ hist = [p \in Procs |-> NoHist]
    /\ timers = {}
    /\ twin = EmptyStores
    /\ ghost = NoGhost
    /\ regime = "twin"

NextTwin ==
    \/ \E p \in Procs :
        \/ handleJoinRoom(p)
        \/ handleSendMessage(p)
        \/ handleTyping(p)
        \/ handleLeaveRoom(p)
    \/ ReleaseTwin

SpecTwin == InitTwin /\ [][NextTwin]_vars

\* SpecMessages: addRoomMessage calls on one room, made on two stores at
\* once: the store of the variables redis and fallbackMaps, connected to the
\* primary backend, and the store twin, which runs on the fallback alone.
\* The n-th message of the room has id n.
InitMessages ==
    /\ connected = TRUE
    /\ faulty = "none"
    /\ client = "redis"
    /\ running = 0
    /\ now = 0
    /\ redis = EmptyRedis
    /\ fallbackMaps = EmptyFallback
    /\ pc = [p \in Procs |-> "idle"]
    /\ req = [p \in Procs |-> NoReq]
    /\ local = [p \in Procs |-> NoLocal]
    /\ resp = [p \in Procs |-> NoResp]
    /\ hist = [p \in Procs |-> NoHist]
    /\ timers = {}
    /\ twin = EmptyStores
    /\ ghost = NoGhost
    /\ regime = "store"

LongAvatars(seq) == Cardinality({i \in 1..Len(seq) : seq[i].avatar = "long"})

AddRoomMessage(roomId, userId, text, avatar) ==
    LET message == Message(Len(ghost.appended[roomId]) + 1, userId, text, avatar) IN
    /\ regime = "store"
    /\ \A r \in Rooms \ {roomId} : ghost.appended[r] = <<>>
    /\ Len(ghost.appended[roomId]) < MaxAppends
    /\ avatar = "long" => LongAvatars(ghost.appended[roomId]) < MaxLongAvatars
    /\ redis' = addRoomMessage(Stores, "primary", roomId, message).redis
    /\ twin' = addRoomMessage(twin, "fallback", roomId, message)
    /\ ghost' = [ghost EXCEPT !.appended[roomId] = Append(@, message)]
    /\ UNCHANGED <<connected, faulty, client, running, now, fallbackMaps, pc, req, local, resp, hist,
                   regime, timers>>

NextMessages ==
    \E roomId \in Rooms, avatar \in Avatars :
        AddRoomMessage(roomId, CHOOSE u \in Users : TRUE, CHOOSE t \in Texts : TRUE, avatar)

SpecMessages == InitMessages /\ [][NextMessages]_vars

\* -------------------------------------------------------- observations
\* What the public read methods of the store return in the current state.
ReadMode == IF OnBackend THEN "primary" ELSE "fallback"
UserRoomOf(u) == getUserRoom(Stores, ReadMode, u)
IsParticipant(r, u) == hasRoomParticipant(Stores, ReadMode, r, u)
ParticipantsOf(r) == getRoomParticipants(Stores, ReadMode, r)
CreatorOf(r) == getRoomCreator(Stores, ReadMode, r)
MessagesOf(r) == getRoomMessages(Stores, ReadMode, r)

\* The typing entries of a room, in the primary hash and in the in-memory map.
TypingEntriesOf(r) ==
    redis.typing[r] \cup {u \in Users : fallbackMaps.typingStatus[r][u].present}

DoneJoin(p) == pc[p] = "done" /\ req[p].op = "join-room" /\ resp[p].status = 200
DoneLeave(p) == pc[p] = "done" /\ req[p].op = "leave-room" /\ resp[p].status = 200
\* A kick-user that ran with no other request in flight has been answered.
DoneKick(p) == pc[p] = "done" /\ req[p].op = "kick-user" /\ hist[p].quiet
\* What the read methods returned when request p arrived.
ParticipantsBefore(p, r) == getRoomParticipants(hist[p].before, ReadMode, r)
UserRoomBefore(p, u) == getUserRoom(hist[p].before, ReadMode, u)
CreatorBefore(p, r) == getRoomCreator(hist[p].before, ReadMode, r)
MessagesBefore(p, r) == getRoomMessages(hist[p].before, ReadMode, r)

\* ------------------------------------------------- the store over time
\* SpecTyping: the calls that the handlers make on the store, each as one
\* step and one at a time, on a store that is either connected to the primary
\* backend or runs on the fallback alone, while time passes and the pending
\* timers fire.
InitTyping ==
    /\ connected \in BOOLEAN
    /\ faulty = "none"
    /\ client = "redis"
    /\ running = 0
    /\ now = 0
    /\ redis = EmptyRedis
    /\ fallbackMaps = EmptyFallback
    /\ pc = [p \in Procs |-> "idle"]
    /\ req = [p \in Procs |-> NoReq]
    /\ local = [p \in Procs |-> NoLocal]
    /\ resp = [p \in Procs |-> NoResp]
    /\ hist = [p \in Procs |-> NoHist]
    /\ timers = {}
    /\ twin = EmptyStores
    /\ ghost = NoGhost
    /\ regime = "store"

\* The result S of a store call becomes the state; typed: the call was
\* setUserTypingStatus(roomId, userId, true); ticks: seconds that passed.
StoreCall(S, typed, ticks, resched) ==
    /\ regime = "store"
    /\ redis' = S.redis
    /\ fallbackMaps' = S.fallbackMaps
    /\ timers' = S.timers
    /\ ghost' = [ghost EXCEPT
          !.typedAgo = [r \in Rooms |-> [u \in Users |->
              IF <<r, u>> \in typed THEN 0
              ELSE IF u \notin S.redis.typing[r] /\ ~S.fallbackMaps.typingStatus[r][u].present
                   THEN -1
              ELSE IF @[r][u] + ticks > TYPING_TTL THEN TYPING_TTL + 1
              ELSE @[r][u] + ticks]],
          !.rescheduled = resched]
    /\ UNCHANGED <<connected, faulty, client, running, now, pc, req, local, resp, hist, regime, twin>>

\* handleJoinRoom, of a user who is in no room
StoreJoinRoom(userId, roomId) ==
    /\ UserRoomOf(userId) = NoRoom
    /\ StoreCall(joinRoom(Stores, ReadMode, userId, roomId, Participant("short", FALSE)),
                 {}, 0, FALSE)

\* handleLeaveRoom: leaveRoom and cleanupEmptyRoom
StoreLeaveRoom(userId, roomId) ==
    /\ IsParticipant(roomId, userId)
    /\ StoreCall(cleanupEmptyRoom(leaveRoom(Stores, ReadMode, userId, roomId),
                                  ReadMode, roomId), {}, 0, FALSE)

\* What handleKickUser does to its target and handleJoinRoom to the previous
\* room of its user: removeUserRoom and removeRoomParticipant.
StoreRemoveParticipant(userId, roomId) ==
    /\ IsParticipant(roomId, userId)
    /\ StoreCall(removeRoomParticipant(removeUserRoom(Stores, ReadMode, userId),
                                       ReadMode, roomId, userId), {}, 0, FALSE)

\* handleTyping: setUserTypingStatus of a participant
StoreSetUserTypingStatus(roomId, userId, isTyping) ==
    /\ IsParticipant(roomId, userId)
    /\ isTyping =>
          Cardinality({ru \in Rooms \X Users : ru[2] \in TypingEntriesOf(ru[1])}
                        \cup {<<roomId, userId>>}) <= MaxTypingUsers
    /\ StoreCall(setUserTypingStatus(Stores, ReadMode, roomId, userId, isTyping),
                 IF isTyping THEN {<<roomId, userId>>} ELSE {}, 0,
                 isTyping /\ \E t \in timers : t.roomId = roomId /\ t.userId = userId)

\* handleGetTypingStatus: getRoomTypingUsers
StoreGetRoomTypingUsers(roomId) ==
    /\ roomId \in Rooms
    /\ StoreCall(getRoomTypingUsers(Stores, ReadMode, roomId), {}, 0, FALSE)

\* A second passes.
Tick ==
    /\ now = 0
    /\ StoreCall(TickStores(Stores), {}, 1, FALSE)

\* A timer that is due runs its callback.
TimerFires(t) ==
    /\ t \in timers
    /\ t.due <= now
    /\ StoreCall(timerCallback(Stores, t), {}, 0, FALSE)

SomeTimerFires == \E t \in timers : TimerFires(t)

NextTyping ==
    \/ \E u \in Users, r \in Rooms :
        \/ StoreJoinRoom(u, r)
        \/ StoreLeaveRoom(u, r)
        \/ StoreRemoveParticipant(u, r)
        \/ \E b \in BOOLEAN : StoreSetUserTypingStatus(r, u, b)
    \/ \E r \in Rooms : StoreGetRoomTypingUsers(r)
    \/ Tick
    \/ SomeTimerFires

SpecTyping == InitTyping /\ [][NextTyping]_vars

\* Time passes, and Node runs the callback of a timer that is due.
FairSpecTyping == SpecTyping /\ WF_vars(Tick) /\ WF_vars(SomeTimerFires)

\* ------------------------------------------- failures under interleaving
\* The catch blocks of joinRoom, leaveRoom and cleanupEmptyRoom: the public
\* methods called one after the other, each with a backend command of its
\* own, between which other requests run.
\* catch of joinRoom: await this.setUserRoom(userId, roomId)
JoinSeqSetUserRoom(p) ==
    /\ pc[p] = "j_seqSetUserRoom" /\ CanRun(p)
    /\ \E mode \in CallModes(p) :
        /\ SetStores(p, setUserRoom(StoresOf(p), mode, req[p].userId, req[p].roomId))
        /\ Yield(p, mode, "j_seqSetParticipant")
    /\ Goto(p, "j_seqSetParticipant")
    /\ UNCHANGED <<regime, ghost, connected, faulty, client, now, req, local, resp, hist>>

\* catch of joinRoom: await this.setRoomParticipant(roomId, userId, participant)
JoinSeqSetParticipant(p) ==
    /\ pc[p] = "j_seqSetParticipant" /\ CanRun(p)
    /\ \E mode \in CallModes(p) :
        /\ SetStores(p, setRoomParticipant(StoresOf(p), mode, req[p].roomId, req[p].userId,
                                            Participant(req[p].avatar, req[p].flag)))
        /\ Yield(p, mode, "j_getCreator")
    /\ Goto(p, "j_getCreator")
    /\ UNCHANGED <<regime, ghost, connected, faulty, client, now, req, local, resp, hist>>

\* catch of leaveRoom: await this.removeUserRoom(userId)
LeaveSeqRemoveUserRoom(p) ==
    /\ pc[p] = "l_seqRemoveUserRoom" /\ CanRun(p)
    /\ \E mode \in CallModes(p) :
        /\ SetStores(p, removeUserRoom(StoresOf(p), mode, req[p].userId))
        /\ Yield(p, mode, "l_seqRemoveParticipant")
    /\ Goto(p, "l_seqRemoveParticipant")
    /\ UNCHANGED <<regime, ghost, connected, faulty, client, now, req, local, resp, hist>>

\* catch of leaveRoom: await this.removeRoomParticipant(roomId, userId), and
\* this.clearUserTypingStatus(userId, roomId) in the same continuation
LeaveSeqRemoveParticipant(p) ==
    /\ pc[p] = "l_seqRemoveParticipant" /\ CanRun(p)
    /\ \E mode \in CallModes(p) :
        /\ SetStores(p, clearUserTypingStatus(
                            removeRoomParticipant(StoresOf(p), mode, req[p].roomId,
                                                  req[p].userId),
                            req[p].userId, req[p].roomId))
        /\ Yield(p, mode, "l_cleanup")
    /\ Goto(p, "l_cleanup")
    /\ UNCHANGED <<regime, ghost, connected, faulty, client, now, req, local, resp, hist>>

\* catch of cleanupEmptyRoom: const participants = await
\* this.getRoomParticipants(roomId)
CleanupGetParticipants(p) ==
    /\ pc[p] = "c_getParticipants" /\ CanRun(p)
    /\ \E mode \in CallModes(p) :
        IF getRoomParticipants(StoresOf(p), mode, req[p].roomId) = {}
        THEN /\ Goto(p, "c_removeCreator")
             /\ Yield(p, mode, "c_removeCreator")
             /\ UNCHANGED <<resp, local>>
        ELSE /\ Goto(p, "done")
             /\ running' = 0
             /\ Reply(p, 200, "")
    /\ UNCHANGED <<regime, ghost, connected, faulty, client, now, redis, fallbackMaps, timers, twin,
                   req, hist>>

\* catch of cleanupEmptyRoom: await this.removeRoomCreator(roomId)
CleanupRemoveCreator(p) ==
    /\ pc[p] = "c_removeCreator" /\ CanRun(p)
    /\ \E mode \in CallModes(p) :
        /\ SetStores(p, removeRoomCreator(StoresOf(p), mode, req[p].roomId))
        /\ Yield(p, mode, "c_clearMessages")
    /\ Goto(p, "c_clearMessages")
    /\ UNCHANGED <<regime, ghost, connected, faulty, client, now, req, local, resp, hist>>

\* catch of cleanupEmptyRoom: await this.clearRoomMessages(roomId), and the
\* removal of the in-memory typing map in the same continuation
CleanupClearMessages(p) ==
    /\ pc[p] = "c_clearMessages" /\ CanRun(p)
    /\ \E mode \in CallModes(p) :
        SetStores(p, ClearRoomTyping(clearRoomMessages(StoresOf(p), mode, req[p].roomId),
                                     req[p].roomId))
    /\ Goto(p, "done")
    /\ running' = 0
    /\ Reply(p, 200, "")
    /\ UNCHANGED <<regime, ghost, connected, faulty, client, now, req, hist>>

\* SpecFaults: join-room and leave-room with MaxInFlight requests
\* interleaving, on a store connected to a primary backend whose MULTI/EXEC
\* and EVAL may fail while its single commands succeed.
InitFaults ==
    /\ connected = TRUE
    /\ faulty = "transactions"
    /\ client = "redis"
    /\ running = 0
    /\ now = 0
    /\ redis = EmptyRedis
    /\ fallbackMaps = EmptyFallback
    /\ pc = [p \in Procs |-> "idle"]
    /\ req = [p \in Procs |-> NoReq]
    /\ local = [p \in Procs |-> NoLocal]
    /\ resp = [p \in Procs |-> NoResp]
    /\ hist = [p \in Procs |-> NoHist]
    /\ timers = {}
    /\ twin = EmptyStores
    /\ ghost = NoGhost
    /\ regime = "racing"

NextFaults ==
    \E p \in Procs :
        \/ handleJoinRoom(p)
        \/ JoinSeqSetUserRoom(p)
        \/ JoinSeqSetParticipant(p)
        \/ handleLeaveRoom(p)
        \/ LeaveSeqRemoveUserRoom(p)
        \/ LeaveSeqRemoveParticipant(p)
        \/ CleanupGetParticipants(p)
        \/ CleanupRemoveCreator(p)
        \/ CleanupClearMessages(p)
        \/ Release(p)

SpecFaults == InitFaults /\ [][NextFaults]_vars

\* ------------------------------------------------------- a running clock
\* SpecClock: join-room and send-message, one request at a time, while the
\* clock that Date.now() reads (now, in milliseconds here) runs from 0 to
\* MaxClock: two requests can be served at the same value of the clock.
InitClock ==
    /\ connected \in BOOLEAN
    /\ faulty = "none"
    /\ client = "redis"
    /\ running = 0
    /\ now = 0
    /\ redis = EmptyRedis
    /\ fallbackMaps = EmptyFallback
    /\ pc = [p \in Procs |-> "idle"]
    /\ req = [p \in Procs |-> NoReq]
    /\ local = [p \in Procs |-> NoLocal]
    /\ resp = [p \in Procs |-> NoResp]
    /\ hist = [p \in Procs |-> NoHist]
    /\ timers = {}
    /\ twin = EmptyStores
    /\ ghost = NoGhost
    /\ regime = "clocked"

ClockAdvances ==
    /\ regime = "clocked"
    /\ now < MaxClock
    /\ now' = now + 1
    /\ UNCHANGED <<connected, faulty, client, running, redis, fallbackMaps, pc, req, local, resp,
                   hist, regime, timers, twin, ghost>>

NextClock ==
    \/ \E p \in Procs :
        \/ handleJoinRoom(p)
        \/ handleSendMessage(p)
        \/ Release(p)
    \/ ClockAdvances

SpecClock == InitClock /\ [][NextClock]_vars

\* ------------------------------------------- the store and its failures
\* SpecStore: the public methods that the handlers call to change a room,
\* each call as one step and one at a time, on a store that either runs on
\* the fallback alone or is connected to a primary backend whose commands
\* succeed.
InitStore ==
    /\ connected \in BOOLEAN
    /\ faulty = "none"
    /\ client = "redis"
    /\ running = 0
    /\ now = 0
    /\ redis = EmptyRedis
    /\ fallbackMaps = EmptyFallback
    /\ pc = [p \in Procs |-> "idle"]
    /\ req = [p \in Procs |-> NoReq]
    /\ local = [p \in Procs |-> NoLocal]
    /\ resp = [p \in Procs |-> NoResp]
    /\ hist = [p \in Procs |-> NoHist]
    /\ timers = {}
    /\ twin = EmptyStores
    /\ ghost = NoGhost
    /\ regime = "store"

Failed(modes) == Cardinality({i \in DOMAIN modes : modes[i] = "failed"})

\* The ways in which the n commands of a call are served: a command after
\* the first stands for one that the call makes only when an earlier one has
\* failed, or that is made after an earlier one has succeeded (used = FALSE:
\* the call does not reach it).
ModeVectors(n) ==
    IF ~OnBackend THEN {[i \in 1..n |-> "fallback"]}
    ELSE IF faulty = "outage"
    THEN {m \in [1..n -> {"primary", "failed"}] :
            \/ Failed(m) = 0
            \/ ghost.faults < MaxFaults /\ Failed(m) = n}
    ELSE {m \in [1..n -> {"primary", "failed"}] :
            Failed(m) + ghost.faults <= IF faulty = "all" THEN MaxFaults ELSE 0}

\* The result S of the call becomes the state, and the call is remembered.
MethodCall(op, roomId, userId, flag, avatar, modes, S) ==
    LET call == [op |-> op, roomId |-> roomId, userId |-> userId, flag |-> flag,
                 avatar |-> avatar, modes |-> modes]
        same == \A f \in DOMAIN call : ghost.last[f] = call[f]
    IN  /\ regime = "store"
        /\ redis' = S.redis
        /\ fallbackMaps' = S.fallbackMaps
        /\ timers' = S.timers
        /\ ghost' = [ghost EXCEPT
              !.last = [op |-> op, roomId |-> roomId, userId |-> userId, flag |-> flag,
                        avatar |-> avatar, modes |-> modes, repeat |-> same,
                        changed |-> S # Stores, changedBefore |-> ghost.last.changed,
                        result |-> ""],
              !.faults = @ + Failed(modes)]
        /\ UNCHANGED <<connected, faulty, client, running, now, pc, req, local, resp, hist, regime,
                       twin>>

\* handleJoinRoom: joinRoom of a user who is in no room
CallJoinRoom(userId, roomId, participant) ==
    /\ UserRoomOf(userId) = NoRoom
    /\ \E modes \in ModeVectors(3) :
        /\ modes[1] = "primary" => modes[2] = "primary" /\ modes[3] = "primary"
        /\ MethodCall("joinRoom", roomId, userId, participant.isRoomCreator,
                      participant.avatar, modes,
                      joinRoomMethod(Stores, modes, userId, roomId, participant))

\* handleJoinRoom: setRoomCreator of a participant of a room without creator
CallSetRoomCreator(roomId, userId) ==
    /\ IsParticipant(roomId, userId)
    /\ CreatorOf(roomId) = NoUser
    /\ \E modes \in ModeVectors(1) :
        MethodCall("setRoomCreator", roomId, userId, FALSE, "", modes,
                   setRoomCreator(Stores, modes[1], roomId, userId))

\* handleSendMessage: addRoomMessage of a participant
CallAddRoomMessage(roomId, userId) ==
    /\ IsParticipant(roomId, userId)
    /\ \A r \in Rooms : Len(redis.roomMessages[r]) + Len(fallbackMaps.roomMessages[r]) < MaxStored
    /\ \E modes \in ModeVectors(2) :
        /\ modes[1] = "failed" => modes[2] = "primary"
        /\ MethodCall("addRoomMessage", roomId, userId, FALSE, "short", modes,
                      addRoomMessageMethod(Stores, modes, roomId,
                          Message(now, userId, CHOOSE t \in Texts : TRUE, "short")))

\* handleTyping: setUserTypingStatus of a participant
CallSetUserTypingStatus(roomId, userId, isTyping) ==
    /\ IsParticipant(roomId, userId)
    /\ isTyping =>
          Cardinality({ru \in Rooms \X Users : ru[2] \in TypingEntriesOf(ru[1])}
                        \cup {<<roomId, userId>>}) <= MaxTyping
    /\ \E modes \in ModeVectors(2) :
        /\ (modes[1] = "failed" \/ ~isTyping) => modes[2] = "primary"
        /\ MethodCall("setUserTypingStatus", roomId, userId, isTyping, "", modes,
                      setUserTypingStatusMethod(Stores, modes, roomId, userId, isTyping))

\* handleLeaveRoom: leaveRoom of a participant
CallLeaveRoom(userId, roomId) ==
    /\ IsParticipant(roomId, userId)
    /\ \E modes \in ModeVectors(3) :
        /\ modes[1] = "primary" => modes[2] = "primary" /\ modes[3] = "primary"
        /\ MethodCall("leaveRoom", roomId, userId, FALSE, "", modes,
                      leaveRoomMethod(Stores, modes, userId, roomId))

\* handleLeaveRoom: cleanupEmptyRoom, of a room with or without participants
CallCleanupEmptyRoom(roomId) ==
    /\ roomId \in Rooms
    /\ \E modes \in ModeVectors(4) :
        /\ modes[1] = "primary" =>
              modes[2] = "primary" /\ modes[3] = "primary" /\ modes[4] = "primary"
        /\ MethodCall("cleanupEmptyRoom", roomId, NoUser, FALSE, "", modes,
                      cleanupEmptyRoomMethod(Stores, modes, roomId))

NextStore ==
    \/ \E u \in Users, r \in Rooms :
        \/ \E a \in Avatars, b \in BOOLEAN : CallJoinRoom(u, r, Participant(a, b))
        \/ CallSetRoomCreator(r, u)
        \/ CallAddRoomMessage(r, u)
        \/ \E b \in BOOLEAN : CallSetUserTypingStatus(r, u, b)
        \/ CallLeaveRoom(u, r)
    \/ \E r \in Rooms : CallCleanupEmptyRoom(r)

SpecStore == InitStore /\ [][NextStore]_vars

\* SpecFaulty: the same calls, with participants whose avatar the store's
\* schema accepts, on a store connected to a primary backend of which up to
\* MaxFaults commands fail.
InitFaulty ==
    /\ connected = TRUE
    /\ faulty = "all"
    /\ client = "redis"
    /\ running = 0
    /\ now = 0
    /\ redis = EmptyRedis
    /\ fallbackMaps = EmptyFallback
    /\ pc = [p \in Procs |-> "idle"]
    /\ req = [p \in Procs |-> NoReq]
    /\ local = [p \in Procs |-> NoLocal]
    /\ resp = [p \in Procs |-> NoResp]
    /\ hist = [p \in Procs |-> NoHist]
    /\ timers = {}
    /\ twin = EmptyStores
    /\ ghost = NoGhost
    /\ regime = "store"

NextFaulty ==
    \/ \E u \in Users, r \in Rooms :
        \/ CallJoinRoom(u, r, Participant("short", FALSE))
        \/ CallSetRoomCreator(r, u)
        \/ CallAddRoomMessage(r, u)
        \/ \E b \in BOOLEAN : CallSetUserTypingStatus(r, u, b)
        \/ CallLeaveRoom(u, r)
    \/ \E r \in Rooms : CallCleanupEmptyRoom(r)

SpecFaulty == InitFaulty /\ [][NextFaulty]_vars

\* SpecOutage: calls of joinRoom, setRoomCreator, leaveRoom and
\* cleanupEmptyRoom on a store connected to a primary backend that is out of
\* reach during up to MaxFaults of the calls, so that every command of such a
\* call fails, and in reach again afterwards.
InitOutage ==
    /\ connected = TRUE
    /\ faulty = "outage"
    /\ client = "redis"
    /\ running = 0
    /\ now = 0
    /\ redis = EmptyRedis
    /\ fallbackMaps = EmptyFallback
    /\ pc = [p \in Procs |-> "idle"]
    /\ req = [p \in Procs |-> NoReq]
    /\ local = [p \in Procs |-> NoLocal]
    /\ resp = [p \in Procs |-> NoResp]
    /\ hist = [p \in Procs |-> NoHist]
    /\ timers = {}
    /\ twin = EmptyStores
    /\ ghost = NoGhost
    /\ regime = "store"

NextOutage ==
    \/ \E u \in Users, r \in Rooms :
        \/ CallJoinRoom(u, r, Participant("short", FALSE))
        \/ CallSetRoomCreator(r, u)
        \/ CallLeaveRoom(u, r)
    \/ \E r \in Rooms : CallCleanupEmptyRoom(r)

SpecOutage == InitOutage /\ [][NextOutage]_vars

\* ------------------------------------------------------------ a full room
\* SpecRace: leave-room, send-message and get-messages with
\* MaxInFlight requests interleaving, on a store where a user of RacingUsers
\* has created a room and sent MESSAGE_CAP messages to it.
FullRoom(mode, userId, roomId) ==
    LET message == Message(0, userId, CHOOSE t \in Texts : TRUE, "short")
        full == [i \in 1..MESSAGE_CAP |-> message]
        S == setRoomCreator(joinRoom(EmptyStores, mode, userId, roomId,
                                     Participant("short", TRUE)),
                            mode, roomId, userId)
    IN  IF OnPrimary(mode) THEN [S EXCEPT !.redis.roomMessages[roomId] = full]
        ELSE [S EXCEPT !.fallbackMaps.roomMessages[roomId] = full]

InitRace ==
    /\ connected \in BOOLEAN
    /\ faulty = "none"
    /\ client = "redis"
    /\ running = 0
    /\ now = 0
    /\ \E u \in RacingUsers, r \in Rooms :
          LET S == FullRoom(IF connected THEN "primary" ELSE "fallback", u, r)
          IN  /\ redis = S.redis
              /\ fallbackMaps = S.fallbackMaps
              /\ timers = S.timers
    /\ pc = [p \in Procs |-> "idle"]
    /\ req = [p \in Procs |-> NoReq]
    /\ local = [p \in Procs |-> NoLocal]
    /\ resp = [p \in Procs |-> NoResp]
    /\ hist = [p \in Procs |-> NoHist]
    /\ twin = EmptyStores
    /\ ghost = NoGhost
    /\ regime = "racing"

NextRace ==
    \E p \in Procs :
        \/ handleLeaveRoom(p)
        \/ handleSendMessage(p)
        \/ handleGetMessages(p)
        \/ Release(p)

SpecRace == InitRace /\ [][NextRace]_vars

\* ------------------------------------------------- the life of the client
\* The connection state of the store: the flag isConnected and the client.
Connection == [connected |-> connected, client |-> client]

\* initialize(): no client is created when REDIS_ENABLED is false; otherwise
\* the client is created, with lazyConnect, and the flag is still false.
initialize(enabled) ==
    [connected |-> FALSE, client |-> IF enabled THEN "redis" ELSE "null"]

\* The handlers of the client's events 'connect' and 'ready' set the flag,
\* those of 'error', 'close' and 'reconnecting' reset it.
ClientEvents == {"connect", "ready", "error", "close", "reconnecting"}
onEvent(C, event) == [C EXCEPT !.connected = event \in {"connect", "ready"}]

\* A disconnect() that drops the client and leaves the flag as it is.
disconnectKeepsFlag(C) == [C EXCEPT !.client = "null"]

\* disconnect(): with a client, the finally block drops the client and resets
\* the flag; without a client, nothing.
disconnect(C) ==
    IF C.client = "null" THEN C
    ELSE [C EXCEPT !.client = "null", !.connected = FALSE]

\* A healthCheck that pings whatever the flag says.
healthCheckPingsFirst(C, ping) ==
    IF C.client = "null" THEN "degraded"
    ELSE IF ping = "pong" /\ C.connected THEN "healthy" ELSE "unhealthy"

\* healthCheck(): ping is what client.ping() does, "pong" or "throws".
healthCheck(C, ping) ==
    IF ~C.connected \/ C.client = "null" THEN "degraded"
    ELSE IF ping = "pong" THEN "healthy" ELSE "unhealthy"

LifeStep(C, event) ==
    /\ regime = "store"
    /\ connected' = C.connected
    /\ client' = C.client
    /\ ghost' = [ghost EXCEPT !.event = event, !.last = [NoCall EXCEPT !.op = event]]
    /\ UNCHANGED <<faulty, running, now, redis, fallbackMaps, pc, req, local, resp, hist,
                   regime, timers, twin>>

\* An event of the client: its handlers stay registered on it as long as the
\* store holds the client.
ClientEvent(event) ==
    /\ client = "redis"
    /\ LifeStep(onEvent(Connection, event), event)

\* catch of initialize(): await this.client.connect() has rejected
ConnectRejected ==
    /\ client = "redis"
    /\ ghost.event = "initialize"
    /\ connected' = FALSE
    /\ ghost' = [ghost EXCEPT !.last = [NoCall EXCEPT !.op = "connectRejected"]]
    /\ UNCHANGED <<client, faulty, running, now, redis, fallbackMaps, pc, req, local, resp,
                   hist, regime, timers, twin>>

CallDisconnect ==
    /\ client = "redis"
    /\ LifeStep(disconnect(Connection), "disconnect")

\* The ping of a client that is connected and ready succeeds or throws; the
\* ping of any other client throws (enableOfflineQueue is false).
CallHealthCheck(ping) ==
    /\ regime = "store"
    /\ ghost.event \notin {"connect", "ready"} => ping = "throws"
    /\ ghost' = [ghost EXCEPT !.last =
                    [NoCall EXCEPT !.op = "healthCheck",
                                   !.modes = <<ping>>,
                                   !.result = healthCheck(Connection, ping)]]
    /\ UNCHANGED <<connected, client, faulty, running, now, redis, fallbackMaps, pc, req,
                   local, resp, hist, regime, timers, twin>>

\* SpecLife: a store from its construction on, with the events of its
\* client, disconnect(), healthCheck() and calls of joinRoom and leaveRoom.
InitLife ==
    /\ \E enabled \in BOOLEAN :
          /\ connected = initialize(enabled).connected
          /\ client = initialize(enabled).client
          /\ ghost = [NoGhost EXCEPT !.event = IF enabled THEN "initialize" ELSE "disabled"]
    /\ faulty = "none"
    /\ running = 0
    /\ now = 0
    /\ redis = EmptyRedis
    /\ fallbackMaps = EmptyFallback
    /\ pc = [p \in Procs |-> "idle"]
    /\ req = [p \in Procs |-> NoReq]
    /\ local = [p \in Procs |-> NoLocal]
    /\ resp = [p \in Procs |-> NoResp]
    /\ hist = [p \in Procs |-> NoHist]
    /\ timers = {}
    /\ twin = EmptyStores
    /\ regime = "store"

NextLife ==
    \/ \E event \in ClientEvents : ClientEvent(event)
    \/ ConnectRejected
    \/ CallDisconnect
    \/ \E ping \in {"pong", "throws"} : CallHealthCheck(ping)
    \/ \E u \in Users, r \in Rooms :
        \/ CallJoinRoom(u, r, Participant("short", FALSE))
        \/ CallLeaveRoom(u, r)

SpecLife == InitLife /\ [][NextLife]_vars

\* ---------------------------------------------------------------- claims
\* C1: when a join-room(B, X) that ran with no other request in flight has
\* completed, and X was a participant of a different room A when it arrived,
\* then getUserRoom(X) = B, X is a participant of B and X is no participant
\* of A.
JoinLeavesOtherRooms ==
    \A p \in Procs :
        (DoneJoin(p) /\ hist[p].quiet) =>
            \A a \in hist[p].wasIn :
                /\ UserRoomOf(req[p].userId) = req[p].roomId
                /\ IsParticipant(req[p].roomId, req[p].userId)
                /\ ~IsParticipant(a, req[p].userId)

\* C2: when no request is in progress, every userId is in the participant
\* set of at most one room.
AtMostOneRoomPerUser ==
    Quiescent =>
        \A u \in Users : Cardinality({r \in Rooms : IsParticipant(r, u)}) <= 1

\* C3: when no request is in progress, getUserRoom(X) = R implies that X is
\* in the participant set of R.
MappingImpliesParticipant ==
    Quiescent =>
        \A u \in Users :
            UserRoomOf(u) # NoRoom => IsParticipant(UserRoomOf(u), u)

\* C4: when all the concurrent join-room calls of a batch have completed,
\* and every call into room r claimed to be its creator, exactly one of the
\* userIds that joined r is the recorded creator of r.
Claimants(r) == {req[p].userId : p \in {q \in Procs : req[q].roomId = r}}
AllClaim(r) == \A p \in Procs : req[p].roomId = r => req[p].flag
BatchDone == \A p \in Procs : DoneJoin(p)
ExactlyOneCreatorRecorded ==
    BatchDone =>
        \A r \in Rooms :
            (Claimants(r) # {} /\ AllClaim(r)) =>
                Cardinality({u \in Claimants(r) : CreatorOf(r) = u}) = 1
ExactlyOneCreatorRecordedWitness ==
    /\ BatchDone
    /\ \E r \in Rooms :
        /\ \A p \in Procs : req[p].roomId = r /\ req[p].flag
                              /\ hist[p].creatorSeen = NoUser
        /\ Cardinality(Claimants(r)) >= 2

\* C5: a step never replaces the recorded creator of a room by a different
\* userId; the record changes only from or to "no creator".
CreatorSetOnce ==
    [][\A r \in Rooms :
          (CreatorOf(r) # NoUser /\ CreatorOf(r)' # NoUser) =>
              CreatorOf(r)' = CreatorOf(r)]_vars

\* C6: a join-room by U with claimsCreator = true that ran with no other
\* request in flight and read a recorded creator C # U leaves the recorded
\* creator equal to C and answers isCreator = false.
ForeignClaimKeepsCreator ==
    \A p \in Procs :
        (DoneJoin(p) /\ hist[p].quiet /\ req[p].flag
            /\ hist[p].creatorSeen \notin {NoUser, req[p].userId}) =>
                /\ CreatorOf(req[p].roomId) = hist[p].creatorSeen
                /\ ~resp[p].isCreator
ForeignClaimKeepsCreatorWitness ==
    \E p \in Procs :
        /\ DoneJoin(p) /\ hist[p].quiet /\ req[p].flag
        /\ hist[p].creatorSeen \notin {NoUser, req[p].userId}

\* C7: a join-room step that records a user who was not the recorded creator
\* as the creator of the room belongs to a join that found the room without
\* any other participant.
NewCreatorJoinedEmptyRoom ==
    [][\A p \in Procs :
          (/\ pc[p] = "j_setCreator"
           /\ pc'[p] = "j_getParticipants"
           /\ CreatorOf(req[p].roomId) # req[p].userId
           /\ CreatorOf(req[p].roomId)' = req[p].userId) =>
              hist[p].emptyBefore]_vars

\* C8: a join-room that ran with no other request in flight and read no
\* recorded creator records the joining user as creator and answers
\* isCreator = true, with claimsCreator true or false.
FirstJoinerBecomesCreator ==
    \A p \in Procs :
        (DoneJoin(p) /\ hist[p].quiet /\ hist[p].creatorSeen = NoUser) =>
            /\ CreatorOf(req[p].roomId) = req[p].userId
            /\ resp[p].isCreator
FirstJoinerBecomesCreatorWitness ==
    \E p \in Procs :
        /\ DoneJoin(p) /\ hist[p].quiet /\ hist[p].creatorSeen = NoUser
        /\ ~req[p].flag

\* C9: when a successful leave-room has completed and the room has no
\* participant, the room has no recorded creator, an empty message list and
\* no typing entry.
LastLeaveClearsRoom ==
    \A p \in Procs :
        (DoneLeave(p) /\ ParticipantsOf(req[p].roomId) = {}) =>
            /\ CreatorOf(req[p].roomId) = NoUser
            /\ MessagesOf(req[p].roomId) = <<>>
            /\ TypingEntriesOf(req[p].roomId) = {}
LastLeaveClearsRoomWitness ==
    \E p \in Procs :
        /\ DoneLeave(p) /\ ParticipantsOf(req[p].roomId) = {}
        /\ hist[p].hadContent

\* C10: when no request is in progress, a room with zero participants has
\* no recorded creator.
EmptyRoomHasNoCreator ==
    Quiescent =>
        \A r \in Rooms : ParticipantsOf(r) = {} => CreatorOf(r) = NoUser

\* C11: when a join-room that ran with no other request in flight has moved
\* its user out of a room A, A is as a leave-room of A by that user leaves it:
\* the user has no participant record, no mapping to A and no typing entry in
\* A, and if A has no participant it has no recorded creator and no message.
JoinMoveEqualsLeave ==
    \A p \in Procs :
        (DoneJoin(p) /\ hist[p].quiet) =>
            \A a \in hist[p].wasIn :
                /\ ~IsParticipant(a, req[p].userId)
                /\ UserRoomOf(req[p].userId) # a
                /\ req[p].userId \notin TypingEntriesOf(a)
                /\ ParticipantsOf(a) = {} =>
                      CreatorOf(a) = NoUser /\ MessagesOf(a) = <<>>

KickOutcome(p) ==
    LET parts == ParticipantsBefore(p, req[p].roomId) IN
    IF parts = {} THEN <<404, "Room not found">>
    ELSE IF req[p].targetUserId \notin parts THEN <<404, "Target user not found">>
    ELSE IF CreatorBefore(p, req[p].roomId) # req[p].userId THEN <<403, "Forbidden">>
    ELSE IF req[p].targetUserId = req[p].userId THEN <<400, "Cannot kick yourself">>
    ELSE <<200, "">>
KickRemovesOnlyTarget ==
    \A p \in Procs :
        (DoneKick(p) /\ resp[p].status = 200) =>
            /\ Stores = removeRoomParticipant(
                            removeUserRoom(hist[p].before, ReadMode, req[p].targetUserId),
                            ReadMode, req[p].roomId, req[p].targetUserId)
            /\ ~IsParticipant(req[p].roomId, req[p].targetUserId)
            /\ UserRoomOf(req[p].targetUserId) = NoRoom
            /\ CreatorOf(req[p].roomId) = CreatorBefore(p, req[p].roomId)
            /\ MessagesOf(req[p].roomId) = MessagesBefore(p, req[p].roomId)
KickRemovesOnlyTargetWitness ==
    \E p \in Procs :
        /\ DoneKick(p) /\ resp[p].status = 200
        /\ ParticipantsOf(req[p].roomId) = {}
        /\ CreatorOf(req[p].roomId) = req[p].userId
        /\ MessagesOf(req[p].roomId) # <<>>

\* The last n elements of the sequence of messages passed to addRoomMessage.
Recent(r, n) ==
    LET app == ghost.appended[r] IN
    {app[i] : i \in {k \in 1..Len(app) : k > Len(app) - n}}
Returned(S, mode, r) ==
    LET got == getRoomMessages(S, mode, r) IN {got[i] : i \in 1..Len(got)}

\* C15: after any sequence of addRoomMessage calls on a room, getRoomMessages
\* returns at most MESSAGE_CAP messages, and they are exactly the most
\* recently appended ones, unaltered and each once, on the primary backend
\* and on the fallback.
RecentMessagesKept ==
    \A r \in Rooms :
        /\ Len(getRoomMessages(Stores, "primary", r)) <= MESSAGE_CAP
        /\ Returned(Stores, "primary", r) = Recent(r, MESSAGE_CAP)
        /\ Len(getRoomMessages(Stores, "primary", r)) = Cardinality(Recent(r, MESSAGE_CAP))
        /\ Len(getRoomMessages(twin, "fallback", r)) <= MESSAGE_CAP
        /\ Returned(twin, "fallback", r) = Recent(r, MESSAGE_CAP)
        /\ Len(getRoomMessages(twin, "fallback", r)) = Cardinality(Recent(r, MESSAGE_CAP))

\* C16: after the same addRoomMessage calls, of messages that the store's
\* schema accepts, getRoomMessages returns the same sequence on the store
\* backed by the primary and on the store that runs on the fallback.
SameOrderOnBothBackends ==
    \A r \in Rooms :
        LongAvatars(ghost.appended[r]) = 0 =>
            getRoomMessages(Stores, "primary", r) = getRoomMessages(twin, "fallback", r)

\* C17: a join-room, send-message, typing or leave-room made after the same
\* requests on the store backed by the primary and on the store that runs on
\* the fallback alone is answered with the same status, error and payload.
TwinDone == pc[1] = "done" /\ pc[2] = "done"
SameResponsesOnBothBackends ==
    TwinDone => resp[1] = resp[2]
SameResponsesOnBothBackendsWitness ==
    /\ TwinDone
    /\ req[1].op = "typing"
    /\ resp[1].status = 200
    /\ resp[2].typingUsers # {}

\* C18: when more than TYPING_TTL seconds have passed since the last
\* typing=true of user u in room r, getRoomTypingUsers(r) does not name u,
\* whatever the other users of the room have sent.
TypingExpiresPerUser ==
    \A r \in Rooms, u \in Users :
        ghost.typedAgo[r][u] > TYPING_TTL =>
            u \notin TypingUsersRead(Stores, ReadMode, r, NoUser)

\* C19: an entry whose user has sent no typing=true for more than TYPING_TTL
\* seconds is eventually in neither representation (or written anew by its
\* user), also when the user was kicked or moved and when others go on typing.
TypingNeverLeaks ==
    \A r \in Rooms, u \in Users :
        (ghost.typedAgo[r][u] > TYPING_TTL) ~>
            (u \notin TypingEntriesOf(r) \/ ghost.typedAgo[r][u] = 0)

\* C20: every pending timer is the timer of the present entry of its room
\* and user, so that no entry was removed without its timer being cancelled,
\* and a room and user have at most one pending timer.
TimersOf(r, u) == {t \in timers : t.roomId = r /\ t.userId = u}
OneTimerPerEntry ==
    /\ \A t \in timers :
        t.current /\ fallbackMaps.typingStatus[t.roomId][t.userId].present
    /\ \A r \in Rooms, u \in Users : Cardinality(TimersOf(r, u)) <= 1
OneTimerPerEntryWitness ==
    /\ ghost.rescheduled
    /\ \E r \in Rooms, u \in Users :
        /\ ghost.typedAgo[r][u] = 0
        /\ TimersOf(r, u) = {Timer(r, u)}
        /\ \E o \in Users \ {u} : TimersOf(r, o) # {}

\* C21: right after a call setUserTypingStatus(r, u, nick, true), the fallback
\* store holds the entry of (r, u), expiring TYPING_TTL seconds from now, and
\* the timer of that entry is pending, however the commands of the call on
\* the primary backend were served.
TypingAlwaysRecorded ==
    (ghost.last.op = "setUserTypingStatus" /\ ghost.last.flag) =>
        LET r == ghost.last.roomId
            u == ghost.last.userId
        IN  /\ fallbackMaps.typingStatus[r][u] =
                  [expiresAt |-> now + TYPING_TTL, timerId |-> TRUE, present |-> TRUE]
            /\ TimersOf(r, u) = {Timer(r, u)}

\* C22: a request that ran with no other request in flight and was answered
\* with an error status (send-message or typing 403, leave-room 404,
\* kick-user 404, 403 or 400, get-typing-status 404) has left the participants,
\* the user-room mappings, the creator records, the messages and the typing
\* status, in both representations and with the pending timers, as they were
\* when it arrived.
Rejected(p) ==
    pc[p] = "done" /\ hist[p].quiet /\ resp[p].status \in {400, 403, 404}
RejectedChangesNothing ==
    \A p \in Procs : Rejected(p) => Stores = hist[p].before
RejectedChangesNothingWitness ==
    \E p \in Procs :
        /\ Rejected(p)
        /\ req[p].op = "typing" /\ req[p].flag
        /\ resp[p].status = 403
        /\ ParticipantsOf(req[p].roomId) # {}
        /\ MessagesOf(req[p].roomId) # <<>>

\* C23: a send-message that ran with no other request in flight, from a user
\* who was no participant of the room when it arrived (never joined, kicked
\* or gone), is answered 403 "User not in room" and leaves the message lists
\* of both representations as they were.
DoneSend(p) == pc[p] = "done" /\ req[p].op = "send-message" /\ hist[p].quiet
NonMemberCannotSend ==
    \A p \in Procs :
        (DoneSend(p) /\ req[p].userId \notin ParticipantsBefore(p, req[p].roomId)) =>
            /\ resp[p].status = 403
            /\ resp[p].error = "User not in room"
            /\ redis.roomMessages = hist[p].before.redis.roomMessages
            /\ fallbackMaps.roomMessages = hist[p].before.fallbackMaps.roomMessages
\* The sender is the recorded creator of the room, which others are still
\* in: a user who was a participant and has left or was moved.
NonMemberCannotSendWitness ==
    \E p \in Procs :
        /\ DoneSend(p)
        /\ req[p].userId \notin ParticipantsBefore(p, req[p].roomId)
        /\ CreatorBefore(p, req[p].roomId) = req[p].userId
        /\ ParticipantsBefore(p, req[p].roomId) # {}
        /\ resp[p].status = 403

\* C24: a send-message that ran with no other request in flight and was
\* answered 200 has added exactly one message to the list of the room (at the
\* head on the primary, at the end on the fallback), the message carries the
\* userId and the text of the request, its id is the id of no message that
\* the list held before, and the response returns that message.
RawMessages(S, r) ==
    IF OnBackend THEN S.redis.roomMessages[r] ELSE S.fallbackMaps.roomMessages[r]
SendAppendsFreshMessage ==
    \A p \in Procs :
        (DoneSend(p) /\ resp[p].status = 200) =>
            LET was == RawMessages(hist[p].before, req[p].roomId)
                is == RawMessages(Stores, req[p].roomId)
                message == resp[p].messages[1]
            IN  /\ Len(resp[p].messages) = 1
                /\ is = IF OnBackend THEN <<message>> \o was ELSE Append(was, message)
                /\ message.userId = req[p].userId
                /\ message.text = req[p].text
                /\ \A i \in 1..Len(was) : was[i].id # message.id

\* C25: right after a call of a public method of which a backend command
\* failed, what the failed command was to write or to remove has been
\* written to or removed from the fallback store, and what the call was to
\* record is in the primary or in the fallback store.
FailureAppliedToFallback ==
    LET c == ghost.last
        r == c.roomId
        u == c.userId
        fails(i) == c.modes[i] = "failed"
    IN  (c.op # "none" /\ Failed(c.modes) > 0) =>
        /\ c.op = "joinRoom" =>
              /\ fails(2) => fallbackMaps.userRooms[u] = r
              /\ fails(3) => u \in fallbackMaps.roomParticipants[r]
              /\ redis.userRooms[u] = r \/ fallbackMaps.userRooms[u] = r
              /\ u \in redis.roomParticipants[r] \cup fallbackMaps.roomParticipants[r]
        /\ c.op = "setRoomCreator" => fallbackMaps.roomCreators[r] = u
        /\ c.op = "addRoomMessage" =>
              \E i \in 1..Len(fallbackMaps.roomMessages[r]) :
                  fallbackMaps.roomMessages[r][i].userId = u
        /\ c.op = "setUserTypingStatus" =>
              fallbackMaps.typingStatus[r][u].present = c.flag
        /\ c.op = "leaveRoom" =>
              /\ fails(2) => fallbackMaps.userRooms[u] = NoRoom
              /\ fails(3) => u \notin fallbackMaps.roomParticipants[r]
              /\ ~fallbackMaps.typingStatus[r][u].present
        /\ c.op = "cleanupEmptyRoom" =>
              \/ redis.roomParticipants[r] \cup fallbackMaps.roomParticipants[r] # {}
              \/ /\ fails(3) => fallbackMaps.roomCreators[r] = NoUser
                 /\ fails(4) => fallbackMaps.roomMessages[r] = <<>>
                 /\ \A x \in Users : ~fallbackMaps.typingStatus[r][x].present

\* C26: joinRoom and leaveRoom are indivisible to concurrent observers: while
\* another request is in flight and can take its next step, no join is at a
\* point where the mapping of its user to its room is set and the
\* participant record of the user in the room is missing, and no leave is at
\* a point where the mapping is cleared and the participant record is still
\* there.
InsideJoinRoom(p) == req[p].op = "join-room" /\ pc[p] = "j_seqSetParticipant"
InsideLeaveRoom(p) == req[p].op = "leave-room" /\ pc[p] = "l_seqRemoveParticipant"
JoinLeaveIndivisible ==
    \A p \in Procs : \A q \in Procs \ {p} :
        (Active(q) /\ CanRun(q)) =>
            /\ InsideJoinRoom(p) =>
                  ~(/\ UserRoomOf(req[p].userId) = req[p].roomId
                    /\ ~IsParticipant(req[p].roomId, req[p].userId))
            /\ InsideLeaveRoom(p) =>
                  ~(/\ UserRoomOf(req[p].userId) = NoRoom
                    /\ IsParticipant(req[p].roomId, req[p].userId))

\* C27: cleanupEmptyRoom is idempotent on a room without participants: when
\* the call is made twice in a row on such a room, the second call changes
\* nothing, so that the state after it is the state after the first.
NoParticipantRecord(r) == \A u \in Users : ~IsParticipant(r, u)
CleanupIdempotent ==
    LET c == ghost.last
    IN  (c.op = "cleanupEmptyRoom" /\ c.repeat /\ NoParticipantRecord(c.roomId)) =>
            ~c.changed
\* The first of the two calls has removed something.
CleanupIdempotentWitness ==
    LET c == ghost.last
    IN  /\ c.op = "cleanupEmptyRoom" /\ c.repeat /\ NoParticipantRecord(c.roomId)
        /\ c.changedBefore
        /\ ~c.changed

\* C28: cleanupEmptyRoom on a room that has at least one participant changes
\* nothing: the creator record, the messages and the typing status of the
\* room, in the primary and in the in-memory representation with its pending
\* timers, are as they were before the call.
CleanupKeepsOccupiedRoom ==
    LET c == ghost.last
    IN  (c.op = "cleanupEmptyRoom" /\ ~NoParticipantRecord(c.roomId)) => ~c.changed

\* C29: after joinRoom(U, R, p), getUserRoom(U) is R, hasRoomParticipant(R, U)
\* is true and getRoomParticipants(R) contains U; after a leaveRoom(U, R) of
\* a participant, getUserRoom(U) is null, U is not in getRoomParticipants(R)
\* and U has no typing entry in R.
JoinThenLeaveVisible ==
    LET c == ghost.last
        r == c.roomId
        u == c.userId
    IN  /\ c.op = "joinRoom" =>
              /\ UserRoomOf(u) = r
              /\ IsParticipant(r, u)
              /\ u \in ParticipantsOf(r)
        /\ c.op = "leaveRoom" =>
              /\ UserRoomOf(u) = NoRoom
              /\ u \notin ParticipantsOf(r)
              /\ u \notin TypingEntriesOf(r)

\* C30: after joinRoom(U, R, participant with isRoomCreator = true) into a
\* fresh room R, getRoomCreator(R) returns U.
FreshRoom(r) ==
    /\ redis.roomParticipants[r] = {} /\ fallbackMaps.roomParticipants[r] = {}
    /\ redis.roomCreators[r] = NoUser /\ fallbackMaps.roomCreators[r] = NoUser
    /\ redis.roomMessages[r] = <<>> /\ fallbackMaps.roomMessages[r] = <<>>
    /\ TypingEntriesOf(r) = {}
JoinAsCreatorSetsCreator ==
    [][\A u \in Users, r \in Rooms :
          (/\ FreshRoom(r)
           /\ ghost'.last.op = "joinRoom"
           /\ ghost'.last.userId = u /\ ghost'.last.roomId = r
           /\ ghost'.last.flag)
          => getRoomCreator([redis |-> redis', fallbackMaps |-> fallbackMaps',
                             timers |-> timers'], ReadMode, r) = u]_vars

\* C31: healthCheck returns "degraded" exactly when the store runs on the
\* fallback (no client, or the flag is false), "healthy" when the store is
\* connected and the ping succeeds, "unhealthy" when it is connected and the
\* ping throws; it always returns one of the three.
HealthCheckReportsBackend ==
    LET c == ghost.last
    IN  c.op = "healthCheck" =>
            /\ c.result \in {"healthy", "degraded", "unhealthy"}
            /\ c.result = "degraded" <=> (client = "null" \/ ~connected)
            /\ (connected /\ client = "redis" /\ c.modes[1] = "pong") =>
                  c.result = "healthy"
            /\ (connected /\ client = "redis" /\ c.modes[1] = "throws") =>
                  c.result = "unhealthy"
\* A connected store whose ping has failed has reported "unhealthy".
HealthCheckReportsBackendWitness ==
    /\ ghost.last.op = "healthCheck"
    /\ ghost.last.result = "unhealthy"
    /\ connected /\ client = "redis"

\* C34: the flag isConnected is true only when the last event of the client's
\* life is 'connect' or 'ready' (no 'error', 'close', 'reconnecting' or
\* disconnect() since); when the backend is disabled by configuration, or
\* after disconnect(), the store is never connected with a client, and every
\* call is served by the fallback store: it issues no backend command and
\* leaves the keys of the backend alone.
Offline == ghost.event \in {"disabled", "disconnect"}
StoreMethods == {"joinRoom", "setRoomCreator", "addRoomMessage", "setUserTypingStatus",
                 "leaveRoom", "cleanupEmptyRoom"}
ConnectedOnlyWhileUp ==
    /\ [](connected => ghost.event \in {"connect", "ready"})
    /\ [](Offline => ~OnBackend)
    /\ [][Offline =>
            /\ redis' = redis
            /\ ghost'.last.op \in StoreMethods =>
                  \A i \in DOMAIN ghost'.last.modes : ghost'.last.modes[i] = "fallback"]_vars
\* After disconnect() a joinRoom has been served by the fallback store, which
\* a joinRoom before it was not.
ConnectedOnlyWhileUpWitness ==
    /\ ghost.event = "disconnect"
    /\ ghost.last.op = "joinRoom"
    /\ \E u \in Users, r \in Rooms :
          /\ u \in fallbackMaps.roomParticipants[r]
          /\ \E v \in Users, q \in Rooms : v \in redis.roomParticipants[q]

\* C32: getRoomMessages never returns more than MESSAGE_CAP messages of a
\* room, also when it runs between the push and the trim of an
\* addRoomMessage on the primary backend.
ReadsAtMostCap ==
    /\ \A r \in Rooms : Len(MessagesOf(r)) <= MESSAGE_CAP
    /\ \A p \in Procs :
          (pc[p] = "done" /\ req[p].op = "get-messages") =>
              Len(resp[p].messages) <= MESSAGE_CAP

\* C38: every message of a room's list was appended while its sender was a
\* participant of the room: no step of a send-message appends its message in
\* a state where the sender is no participant of the room.
AppendsOnlyOfParticipants ==
    [][\A p \in Procs :
          (pc[p] = "s_addRoomMessage" /\ pc'[p] # "s_addRoomMessage") =>
              IsParticipant(req[p].roomId, req[p].userId)]_vars

\* C33: cleanupEmptyRoom never deletes the creator record or the messages of
\* a room that has a participant at the moment of the deletion: every step
\* of a cleanup that removes the creator record or messages of a room is
\* taken in a state where the room has no participant record.
InsideCleanup(p) ==
    /\ req[p].op = "leave-room"
    /\ pc[p] \in {"l_cleanup", "c_getParticipants", "c_removeCreator", "c_clearMessages"}
    /\ pc'[p] # pc[p]
RoomContent(r) ==
    <<redis.roomCreators[r], fallbackMaps.roomCreators[r],
      redis.roomMessages[r], fallbackMaps.roomMessages[r]>>
CleanupDeletesOnlyWhenEmpty ==
    [][\A p \in Procs :
          (InsideCleanup(p) /\ RoomContent(req[p].roomId)' # RoomContent(req[p].roomId)) =>
              NoParticipantRecord(req[p].roomId)]_vars

\* C35: in every state where no request is in progress, the recorded creator
\* of a room that has at least one participant is one of the participants of
\* the room.
CreatorIsParticipant ==
    Quiescent =>
        \A r \in Rooms :
            (ParticipantsOf(r) # {} /\ CreatorOf(r) # NoUser) =>
                CreatorOf(r) \in ParticipantsOf(r)

\* C36: a kick-user is answered 200 only when kickedBy was a participant of
\* the room when the request arrived.
KickOnlyByParticipant ==
    \A p \in Procs :
        (DoneKick(p) /\ resp[p].status = 200) =>
            hasRoomParticipant(hist[p].before, ReadMode, req[p].roomId, req[p].userId)

\* C37: of two join-room requests by distinct users into the same room that
\* both arrived while the room had no recorded creator, at most one is
\* answered with isCreator = true.
OneCreatorResponse ==
    \A p \in Procs : \A q \in Procs \ {p} :
        (/\ DoneJoin(p) /\ DoneJoin(q)
         /\ req[p].roomId = req[q].roomId
         /\ req[p].userId # req[q].userId
         /\ CreatorBefore(p, req[p].roomId) = NoUser
         /\ CreatorBefore(q, req[q].roomId) = NoUser)
        => ~(resp[p].isCreator /\ resp[q].isCreator)

\* C39: a user whose joinRoom has returned is reported as a participant of
\* the room by hasRoomParticipant, also when the primary backend failed
\* during the join and is in reach again for the read.
JoinedIsParticipant ==
    LET c == ghost.last
    IN  c.op = "joinRoom" => IsParticipant(c.roomId, c.userId)

====
